---- MODULE Spec2Model ----
(***************************************************************************)
(* Enrichment orchestration of message-enrichment:                         *)
(*   services/enrichment_service.py  EnrichmentService                     *)
(*   core/redis.py                   RedisClient (the cache)               *)
(*   repositories/enrichment_repository.py  EnrichmentRepository.save      *)
(*                                                                         *)
(* Scheduling is the asyncio event loop: code between two suspension       *)
(* points runs atomically.  RedisClient and the Supabase client are        *)
(* synchronous, so awaiting them never suspends; enrich_message suspends   *)
(* only in asyncio.sleep (the companion-response poll) and in              *)
(* asyncio.gather (the analyzer fan-out).                                  *)
(*                                                                         *)
(* Optional strings (assistant_response, conversation_id, error) are only  *)
(* ever tested for truthiness by the code, so None and "" are one value.   *)
(***************************************************************************)
EXTENDS Integers, Sequences, FiniteSets, TLC

\* ---------------------------------------------------------------- bounds
MaxCalls == 2
MaxBatch == 3

\* ------------------------------------------------------ program constants
PollLimit == 50
EnrichmentTTL == 3600
BatchTTL == 86400
ContextLimit == 500

\* ------------------------------------------------------------ input sets
MsgIds == {"m1", "m2"}
Contents == {"a", "b"}
Responses == {"", "r"}
Roles == {"user", "assistant"}
ConvIds == {"", "c1"}
Analyzers == {"classification", "quality", "pii"}

Null == [null |-> TRUE]

Calls == 1..MaxCalls

VARIABLES cache, rows, pipe, now, shadow, batch, webhook, env, query,
          subscription, worker

vars == <<cache, rows, pipe, now, shadow, batch, webhook, env, query,
          subscription, worker>>

\* ------------------------------------------------------------------ JSON
\* json.dumps / json.loads as used by RedisClient: the stored text wraps the
\* value; values that JSON cannot encode make dumps raise.
\* BatchEnrichmentResponseDTO.dict() keeps started_at and completed_at as
\* datetime objects, which json.dumps (no default=) rejects.
DatetimeFields == {"started_at", "completed_at"}

json_serializable(v) == DOMAIN v \cap DatetimeFields = {}

json_dumps(v) == [json |-> v]

json_loads(s) == s.json

\* ------------------------------------------------------------ RedisClient
\* (variant: a client error is handed to the caller)
redis_get_unguarded(c, key, up) ==
    IF ~up THEN [exception |-> "ConnectionError"]
    ELSE IF key \in DOMAIN c THEN json_loads(c[key].text) ELSE Null

\* RedisClient.get: any client error is logged and None is returned; an
\* absent (or expired) key is None.
redis_get(c, key, up) ==
    IF ~up THEN Null
    ELSE IF key \in DOMAIN c THEN json_loads(c[key].text) ELSE Null

\* (variant: nothing is written)
redis_set_dropped(c, key, value, ttl, up) == c

\* RedisClient.set: setex(key, ttl, json.dumps(value)); any error (client or
\* serialisation) leaves the cache unchanged and returns False.
redis_set(c, key, value, ttl, up) ==
    IF up /\ json_serializable(value)
    THEN [k \in DOMAIN c \cup {key} |->
            IF k = key THEN [text |-> json_dumps(value), ttl |-> ttl] ELSE c[k]]
    ELSE c

Truthy(v) == v /= Null

\* ------------------------------------------------- EnrichmentRepository
\* save: upsert into message_enrichments (keyed by message_id); any error is
\* logged and False is returned.
repo_save(t, result, up) ==
    IF up
    THEN [m \in DOMAIN t \cup {result.message_id} |->
            IF m = result.message_id THEN result ELSE t[m]]
    ELSE t

\* ------------------------------------------------------- cache key
\* (variant: the key also covers the message id)
generate_cache_key_per_message(r) ==
    "enrichment:" \o r.message_id \o ":" \o r.content \o ":" \o r.assistant_response

\* _generate_cache_key: md5 (taken as injective) of "content:assistant_response"
generate_cache_key(r) ==
    "enrichment:" \o r.content \o ":" \o r.assistant_response

assistant_slot(r) ==
    "assistant:" \o r.conversation_id \o ":" \o r.message_id

\* ------------------------------------------------------------- requests
\* EnrichmentRequestDTO (the fields the orchestrator reads).
Requests ==
    [message_id : MsgIds, content : Contents, role : Roles,
     conversation_id : ConvIds, assistant_response : Responses,
     conversation_history : {<<>>}, wait_for_response : BOOLEAN,
     include_quality_analysis : BOOLEAN, include_pii_detection : BOOLEAN]

\* ------------------------------------------------------------- analyzers
\* What an awaited analyzer coroutine hands back to enrich_message: a record
\* (the parsed output or the service's own default record), computed from the
\* arguments it was called with, or an exception that escapes the coroutine.
analyzer_output(a, r) ==
    IF a = "classification"
    THEN [by |-> a, content |-> r.content,
          assistant_response |-> r.assistant_response,
          history |-> r.conversation_history]
    ELSE IF a = "quality"
    THEN [by |-> a, content |-> r.content,
          assistant_response |-> r.assistant_response]
    ELSE [by |-> a, content |-> r.content]

\* Texts of the exceptions an analyzer can let escape: classification and
\* quality both go through llm_client.complete and carry its error texts; PII
\* detection carries the text of the GLiNER prediction error.  (The bundled
\* services catch every Exception themselves and return a default record; the
\* orchestrator's own handling of a raising analyzer is what is modelled.)
ExcMessages(a) ==
    IF a = "pii" THEN {"GLiNER prediction failed"}
    ELSE {"Model is loading, please retry"}

AnalyzerOutcomes(a, r) ==
    {[raised |-> FALSE, value |-> analyzer_output(a, r), message |-> ""]}
    \cup {[raised |-> TRUE, value |-> Null, message |-> m] : m \in ExcMessages(a)}

\* (variant: the quality analyzer is appended whatever the flag says)
task_list_always_quality(r) ==
    <<"classification", "quality">>
    \o (IF r.include_pii_detection THEN <<"pii">> ELSE <<>>)

\* tasks in the order enrich_message appends them
task_list(r) ==
    <<"classification">>
    \o (IF r.include_quality_analysis THEN <<"quality">> ELSE <<>>)
    \o (IF r.include_pii_detection THEN <<"pii">> ELSE <<>>)

Range(s) == {s[i] : i \in 1..Len(s)}

\* _build_result: positional unpacking of the gathered results
build_result(r, results, t) ==
    [message_id |-> r.message_id,
     enriched_at |-> t,
     classification |-> results[1],
     quality_analysis |-> IF Len(results) > 1 THEN results[2] ELSE Null,
     pii_detection |-> IF Len(results) > 2 THEN results[3] ELSE Null,
     used_assistant_response |-> r.assistant_response /= ""]

\* ------------------------------------------------- EnrichmentResponseDTO
hit_response(r, cached) ==
    [status |-> "completed", message_id |-> r.message_id, result |-> cached,
     processing_time_ms |-> FALSE, cache_hit |-> TRUE, error |-> ""]

completed_response(r, result) ==
    [status |-> "completed", message_id |-> r.message_id, result |-> result,
     processing_time_ms |-> TRUE, cache_hit |-> FALSE, error |-> ""]

\* (variant: enrich_message has no except branch, the exception reaches the caller)
failed_response_propagates(r, message) == [exception |-> message]

\* (variant: an escaping analyzer exception still yields a completed outcome)
failed_response_as_completed(r, message) ==
    [status |-> "completed", message_id |-> r.message_id, result |-> Null,
     processing_time_ms |-> FALSE, cache_hit |-> FALSE, error |-> message]

\* the except branch of enrich_message: error = str(e)
failed_response(r, message) ==
    [status |-> "failed", message_id |-> r.message_id, result |-> Null,
     processing_time_ms |-> FALSE, cache_hit |-> FALSE, error |-> message]

\* ------------------------------------------------------------- pipeline
IdlePipe ==
    [pc |-> "idle", req |-> Null, req0 |-> Null, key |-> "", polls |-> 0,
     waited |-> FALSE, tasks |-> <<>>, raised |-> {}, ret |-> Null,
     expect |-> Null]

Pair(r) == <<r.content, r.assistant_response>>

\* the fan-out: tasks are appended, then gather suspends the pipeline
\* (the poll loop, if any, has returned: its counter is gone)
dispatch(pl, r) ==
    [pl EXCEPT !.pc = "analyzing", !.req = r, !.polls = 0,
               !.tasks = task_list(r)]

\* (variant: a value found in the slot is not attached to the request)
poll_once_ignores_response(pl, c, up) ==
    LET response == redis_get(c, assistant_slot(pl.req), up) IN
    IF Truthy(response)
    THEN dispatch(pl, pl.req)
    ELSE [pl EXCEPT !.pc = "polling", !.polls = @ + 1]

\* one iteration of the loop of _wait_for_assistant_response: polls counts
\* the reads of the slot made so far by the running loop
poll_once(pl, c, up) ==
    LET response == redis_get(c, assistant_slot(pl.req), up) IN
    IF Truthy(response)
    THEN dispatch(pl, [pl.req EXCEPT !.assistant_response = response.str])
    ELSE [pl EXCEPT !.pc = "polling", !.polls = @ + 1]

\* (variant: the companion-response wait precedes the use of the cache hit)
begin_wait_before_hit(r, c, sh, upGet, upPoll) ==
    LET key == generate_cache_key(r)
        cached == redis_get(c, key, upGet)
        pl == [IdlePipe EXCEPT !.req = r, !.req0 = r, !.key = key,
                               !.expect = IF upGet THEN sh[Pair(r)] ELSE Null]
        waits == r.wait_for_response /\ r.role = "user"
    IN  IF Truthy(cached)
        THEN [pl EXCEPT !.pc = "done", !.waited = waits,
                        !.ret = hit_response(r, cached)]
        ELSE IF waits
        THEN IF r.conversation_id = ""
             THEN dispatch([pl EXCEPT !.waited = TRUE], r)
             ELSE poll_once([pl EXCEPT !.waited = TRUE], c, upPoll)
        ELSE dispatch(pl, r)

\* enrich_message from its entry to its first suspension point (or return)
begin(r, c, sh, upGet, upPoll) ==
    LET key == generate_cache_key(r)
        cached == redis_get(c, key, upGet)
        pl == [IdlePipe EXCEPT !.req = r, !.req0 = r, !.key = key,
                               !.expect = IF upGet THEN sh[Pair(r)] ELSE Null]
    IN  IF Truthy(cached)
        THEN [pl EXCEPT !.pc = "done", !.ret = hit_response(r, cached)]
        ELSE IF r.wait_for_response /\ r.role = "user"
        THEN IF r.conversation_id = ""
             THEN dispatch([pl EXCEPT !.waited = TRUE], r)
             ELSE poll_once([pl EXCEPT !.waited = TRUE], c, upPoll)
        ELSE dispatch(pl, r)

\* a caller invokes enrich_message(r)
Call(p, r) ==
    /\ pipe[p].pc = "idle"
    /\ \A q \in DOMAIN pipe : q < p => pipe[q].pc /= "idle"
    /\ pipe' = [pipe EXCEPT ![p] = begin(r, cache, shadow, env.redis, env.redis)]
    /\ UNCHANGED <<cache, rows, now, shadow, batch, webhook, env, query, subscription, worker>>

\* (variant: the loop makes one more round before giving up)
Poll_one_more(p) ==
    /\ pipe[p].pc = "polling"
    /\ IF pipe[p].polls < PollLimit + 1
       THEN pipe' = [pipe EXCEPT ![p] = poll_once(pipe[p], cache, env.redis)]
       ELSE pipe' = [pipe EXCEPT ![p] = dispatch(pipe[p], pipe[p].req)]
    /\ UNCHANGED <<cache, rows, now, shadow, batch, webhook, env, query, subscription, worker>>

\* the pipeline resumes from asyncio.sleep(0.1)
Poll(p) ==
    /\ pipe[p].pc = "polling"
    /\ IF pipe[p].polls < PollLimit
       THEN pipe' = [pipe EXCEPT ![p] = poll_once(pipe[p], cache, env.redis)]
       ELSE pipe' = [pipe EXCEPT ![p] = dispatch(pipe[p], pipe[p].req)]
    /\ UNCHANGED <<cache, rows, now, shadow, batch, webhook, env, query, subscription, worker>>

\* (variant: when an analyzer raises, the outputs of the others are still
\* assembled, cached and saved)
Join_keeps_partial(p, mayRaise) ==
    /\ pipe[p].pc = "analyzing"
    /\ LET pl == pipe[p]
           r == pl.req
           tl == pl.tasks
       IN \E out \in [Range(tl) -> UNION {AnalyzerOutcomes(a, r) : a \in Range(tl)}] :
          /\ \A a \in Range(tl) : out[a] \in AnalyzerOutcomes(a, r)
          /\ \A a \in Range(tl) : out[a].raised => mayRaise
          /\ LET raisedBy == {a \in Range(tl) : out[a].raised}
                 results == [i \in 1..Len(tl) |-> out[tl[i]].value]
                 result == build_result(r, results, now)
             IN /\ cache' = redis_set(cache, pl.key, result, EnrichmentTTL, env.redis)
                /\ rows' = repo_save(rows, result, env.db)
                /\ now' = now + 1
                /\ shadow' = IF env.redis
                             THEN [shadow EXCEPT ![Pair(pl.req0)] =
                                     [result |-> result, key |-> pl.key]]
                             ELSE shadow
                /\ IF raisedBy /= {}
                   THEN \E a \in raisedBy :
                          pipe' = [pipe EXCEPT ![p] =
                                     [pl EXCEPT !.pc = "done", !.raised = raisedBy,
                                                !.ret = failed_response(r, out[a].message)]]
                   ELSE pipe' = [pipe EXCEPT ![p] =
                                   [pl EXCEPT !.pc = "done",
                                              !.ret = completed_response(r, result)]]
                /\ UNCHANGED <<batch, webhook, env, query, subscription, worker>>

\* asyncio.gather returns (or raises) and enrich_message runs to its return
Join(p, mayRaise) ==
    /\ pipe[p].pc = "analyzing"
    /\ LET pl == pipe[p]
           r == pl.req
           tl == pl.tasks
           upSet == env.redis
           upSave == env.db
       IN \E out \in [Range(tl) -> UNION {AnalyzerOutcomes(a, r) : a \in Range(tl)}] :
          /\ \A a \in Range(tl) : out[a] \in AnalyzerOutcomes(a, r)
          /\ \A a \in Range(tl) : out[a].raised => mayRaise
          /\ LET raisedBy == {a \in Range(tl) : out[a].raised} IN
             IF raisedBy /= {}
             THEN /\ \E a \in raisedBy :
                       pipe' = [pipe EXCEPT ![p] =
                                  [pl EXCEPT !.pc = "done", !.raised = raisedBy,
                                             !.ret = failed_response(r, out[a].message)]]
                  /\ UNCHANGED <<cache, rows, now, shadow, batch, webhook, env, query, subscription, worker>>
             ELSE LET results == [i \in 1..Len(tl) |-> out[tl[i]].value]
                       result == build_result(r, results, now)
                       cache2 == redis_set(cache, pl.key, result, EnrichmentTTL, upSet)
                  IN /\ cache' = cache2
                     /\ rows' = repo_save(rows, result, upSave)
                     /\ now' = now + 1
                     /\ shadow' = IF upSet
                                  THEN [shadow EXCEPT ![Pair(pl.req0)] =
                                          [result |-> result, key |-> pl.key]]
                                  ELSE shadow
                     /\ pipe' = [pipe EXCEPT ![p] =
                                   [pl EXCEPT !.pc = "done",
                                              !.ret = completed_response(r, result)]]
                     /\ UNCHANGED <<batch, webhook, env, query, subscription, worker>>

\* ------------------------------------------------------------------ batch
\* message ids of a batch: "m1", "m2", ... (the validator of
\* BatchEnrichmentRequestDTO rejects a batch with a repeated id)
MsgId(i) == "m" \o ToString(i)

BatchMsgIds == [i \in 1..MaxBatch |-> MsgId(i)]

\* position of an id in the order Python sorts the ids by
IdRank(id) == CHOOSE i \in 1..MaxBatch : BatchMsgIds[i] = id

BatchMessage(i) ==
    {[r EXCEPT !.message_id = MsgId(i)] :
        r \in {q \in Requests :
                 /\ q.message_id = "m1" /\ q.role = "user"
                 /\ ~q.wait_for_response /\ q.assistant_response = ""
                 /\ ~q.include_quality_analysis /\ ~q.include_pii_detection}}

BatchMessageLists ==
    UNION {{ms \in [1..n -> UNION {BatchMessage(i) : i \in 1..n}] :
               \A i \in 1..n : ms[i] \in BatchMessage(i)} : n \in 1..MaxBatch}

\* BatchEnrichmentRequestDTO (batch_id, webhook_url: "" is None)
BatchRequests ==
    [batch_id : {"", "b1"}, priority : {"low", "normal", "high"},
     messages : BatchMessageLists, parallel_processing : BOOLEAN,
     fail_fast : BOOLEAN, share_context : BOOLEAN, deduplicate : BOOLEAN,
     include_partial_results : BOOLEAN, webhook_url : {"", "https://hook"}]

Some(l) == [list |-> l]

\* (variant: every message is kept)
deduplicate_messages_keep_all(messages) == messages

\* _deduplicate_messages: the first message of each content (md5 of the
\* content taken as injective), in submission order
deduplicate_messages(messages) ==
    LET keep == {i \in 1..Len(messages) :
                   \A j \in 1..(i - 1) : messages[j].content /= messages[i].content}
        F[i \in 0..Len(messages)] ==
            IF i = 0 THEN <<>>
            ELSE IF i \in keep THEN Append(F[i - 1], messages[i]) ELSE F[i - 1]
    IN  F[Len(messages)]

group_key(msg) ==
    IF msg.conversation_id /= "" THEN msg.conversation_id ELSE msg.message_id

\* (variant: the group keeps its submission order)
sort_by_message_id_keep_order(group) == group

\* list.sort(key=message_id) of one group
sort_by_message_id(group) ==
    LET pos(i) == Cardinality({j \in 1..Len(group) :
                      \/ IdRank(group[j].message_id) < IdRank(group[i].message_id)
                      \/ /\ IdRank(group[j].message_id) = IdRank(group[i].message_id)
                         /\ j <= i})
    IN  [k \in 1..Len(group) |-> group[CHOOSE i \in 1..Len(group) : pos(i) = k]]

select_group(messages, key) ==
    LET F[i \in 0..Len(messages)] ==
            IF i = 0 THEN <<>>
            ELSE IF group_key(messages[i]) = key
                 THEN Append(F[i - 1], messages[i]) ELSE F[i - 1]
    IN  F[Len(messages)]

\* _group_by_conversation: the groups in the order their keys were first
\* seen (dict insertion order), each sorted by message_id
group_by_conversation(messages) ==
    LET first == {i \in 1..Len(messages) :
                    \A j \in 1..(i - 1) : group_key(messages[j]) /= group_key(messages[i])}
        F[i \in 0..Len(messages)] ==
            IF i = 0 THEN <<>>
            ELSE IF i \in first
                 THEN Append(F[i - 1],
                             sort_by_message_id(select_group(messages, group_key(messages[i]))))
                 ELSE F[i - 1]
    IN  F[Len(messages)]

\* share_context off: one group per message
group_by_message(messages) == [i \in 1..Len(messages) |-> <<messages[i]>>]

truncate(content) ==
    IF Len(content) > ContextLimit THEN SubSeq(content, 1, ContextLimit) ELSE content

\* _build_shared_context
build_shared_context(group) ==
    [i \in 1..Len(group) |->
        [role |-> group[i].role, content |-> truncate(group[i].content),
         message_id |-> group[i].message_id]]

\* the messages in the order enrich_batch walks them (groups, then members),
\* each with the history the walk assigns: "if shared_context:" tests a list
\* that has one entry per member of the group
walk(groups) ==
    LET with_context(group) ==
            LET shared_context == build_shared_context(group) IN
            [i \in 1..Len(group) |->
                IF shared_context /= <<>>
                THEN [group[i] EXCEPT !.conversation_history = shared_context]
                ELSE group[i]]
        F[g \in 0..Len(groups)] ==
            IF g = 0 THEN <<>> ELSE F[g - 1] \o with_context(groups[g])
    IN  F[Len(groups)]

\* what awaiting _process_single_with_tracking yields: a response, or an
\* exception that escaped enrich_message
is_exception(x) == "exception" \in DOMAIN x

EmptyAcc ==
    [results |-> <<>>, errors |-> <<>>, cache_hits |-> 0, cache_misses |-> 0,
     processed |-> 0, successful |-> 0, failed |-> 0,
     aborted |-> FALSE, abort_error |-> ""]

\* (variant: a response served from the cache is not counted as processed)
aggregate_skips_processed(acc, result, message_id, fail_fast) ==
    IF acc.aborted THEN acc
    ELSE IF is_exception(result)
    THEN IF fail_fast
         THEN [acc EXCEPT !.aborted = TRUE, !.abort_error = result.exception]
         ELSE [acc EXCEPT !.errors = Append(@, [message_id |-> message_id,
                                                error |-> result.exception]),
                          !.failed = @ + 1, !.processed = @ + 1]
    ELSE [acc EXCEPT !.results = Append(@, result),
                     !.successful = @ + 1,
                     !.cache_hits = IF result.cache_hit THEN @ + 1 ELSE @,
                     !.cache_misses = IF result.cache_hit THEN @ ELSE @ + 1,
                     !.processed = IF result.cache_hit THEN @ ELSE @ + 1]

\* one round of the aggregation loops of enrich_batch (the parallel loop
\* body and the sequential try/except are the same bookkeeping)
aggregate(acc, result, message_id, fail_fast) ==
    IF acc.aborted THEN acc
    ELSE IF is_exception(result)
    THEN IF fail_fast
         THEN [acc EXCEPT !.aborted = TRUE, !.abort_error = result.exception]
         ELSE [acc EXCEPT !.errors = Append(@, [message_id |-> message_id,
                                                error |-> result.exception]),
                          !.failed = @ + 1, !.processed = @ + 1]
    ELSE [acc EXCEPT !.results = Append(@, result),
                     !.successful = @ + 1,
                     !.cache_hits = IF result.cache_hit THEN @ + 1 ELSE @,
                     !.cache_misses = IF result.cache_hit THEN @ ELSE @ + 1,
                     !.processed = @ + 1]

\* the parallel loop: task i's error is filed under messages_to_process[i]
gather_results(task_results, to_process, fail_fast) ==
    LET F[i \in 0..Len(task_results)] ==
            IF i = 0 THEN EmptyAcc
            ELSE aggregate(F[i - 1], task_results[i], to_process[i].message_id, fail_fast)
    IN  F[Len(task_results)]

\* uuid4().hex[:8]: eight hexadecimal digits of a fresh random uuid (they may
\* all be decimal digits)
Uuids == {"3f9a1c0e", "40127733"}

\* the uuids enrich_batch may draw: uuid4() is called only for a request
\* without batch_id ("": none drawn)
fresh_uuids(req) == IF req.batch_id /= "" THEN {""} ELSE Uuids

\* batch_id = request.batch_id or f"batch_{uuid4().hex[:8]}", then the
\* response enrich_batch starts from
initial_response(req, t, u) ==
    [batch_id |-> IF req.batch_id /= "" THEN req.batch_id ELSE "batch_" \o u,
     status |-> "processing",
     total_messages |-> Len(req.messages), processed_messages |-> 0,
     successful_messages |-> 0, failed_messages |-> 0,
     results |-> Null, errors |-> Null, started_at |-> t, completed_at |-> Null,
     cache_hits |-> 0, cache_misses |-> 0]

\* (variant: results are returned only when include_partial_results is set)
finalize_results_on_request_only(resp, acc, req, t) ==
    [resp EXCEPT
       !.status = IF acc.errors = <<>> THEN "completed" ELSE "partial",
       !.results = IF req.include_partial_results THEN Some(acc.results) ELSE Null,
       !.errors = IF acc.errors /= <<>> THEN Some(acc.errors) ELSE Null,
       !.completed_at = t,
       !.cache_hits = acc.cache_hits,
       !.cache_misses = acc.cache_misses,
       !.processed_messages = acc.processed,
       !.successful_messages = acc.successful,
       !.failed_messages = acc.failed]

\* (variant: the cache counters are not copied into the response)
finalize_without_cache_counters(resp, acc, req, t) ==
    [resp EXCEPT
       !.status = IF acc.errors = <<>> THEN "completed" ELSE "partial",
       !.results = IF req.include_partial_results \/ acc.errors = <<>>
                   THEN Some(acc.results) ELSE Null,
       !.errors = IF acc.errors /= <<>> THEN Some(acc.errors) ELSE Null,
       !.completed_at = t,
       !.processed_messages = acc.processed,
       !.successful_messages = acc.successful,
       !.failed_messages = acc.failed]

\* the end of enrich_batch: "Update response" on the normal path, the outer
\* except branch when an exception was re-raised; the three message counters
\* were updated in place by the loops on either path
finalize(resp, acc, req, t) ==
    IF acc.aborted
    THEN [resp EXCEPT
            !.status = "failed",
            !.errors = Some(<<[batch_error |-> acc.abort_error]>>),
            !.completed_at = t,
            !.processed_messages = acc.processed,
            !.successful_messages = acc.successful,
            !.failed_messages = acc.failed]
    ELSE [resp EXCEPT
            !.status = IF acc.errors = <<>> THEN "completed" ELSE "partial",
            !.results = IF req.include_partial_results \/ acc.errors = <<>>
                        THEN Some(acc.results) ELSE Null,
            !.errors = IF acc.errors /= <<>> THEN Some(acc.errors) ELSE Null,
            !.completed_at = t,
            !.cache_hits = acc.cache_hits,
            !.cache_misses = acc.cache_misses,
            !.processed_messages = acc.processed,
            !.successful_messages = acc.successful,
            !.failed_messages = acc.failed]

IdleBatch ==
    [pc |-> "idle", request |-> Null, to_process |-> <<>>, tasks |-> <<>>,
     idx |-> 0, invoked |-> 0, acc |-> EmptyAcc, response |-> Null]

\* (variant: the webhook task is never created)
finish_without_webhook(acc) ==
    LET response == finalize(batch.response, acc, batch.request, now) IN
    /\ batch' = [batch EXCEPT !.pc = "done", !.acc = acc, !.response = response]
    /\ cache' = IF acc.aborted THEN cache
                ELSE redis_set(cache, "batch:" \o response.batch_id, response,
                               BatchTTL, env.redis)
    /\ webhook' = webhook

\* enrich_batch from the last aggregation to its return: the response is
\* completed, stored under batch:<id> and the webhook task is created (normal
\* path only)
finish(acc) ==
    LET response == finalize(batch.response, acc, batch.request, now) IN
    /\ batch' = [batch EXCEPT !.pc = "done", !.acc = acc, !.response = response]
    /\ cache' = IF acc.aborted THEN cache
                ELSE redis_set(cache, "batch:" \o response.batch_id, response,
                               BatchTTL, env.redis)
    /\ webhook' = IF ~acc.aborted /\ batch.request.webhook_url /= ""
                  THEN "scheduled" ELSE webhook

\* enrich_batch(req) from its entry to its first suspension: gather of all
\* pipelines (each started in task order), or the first pipeline of the
\* sequential walk
enrich_batch_start(req, u) ==
    /\ LET to_process == IF req.deduplicate
                         THEN deduplicate_messages(req.messages) ELSE req.messages
           groups == IF req.share_context
                     THEN group_by_conversation(to_process)
                     ELSE group_by_message(to_process)
           tasks == walk(groups)
           started == [IdleBatch EXCEPT !.request = req, !.to_process = to_process,
                                        !.tasks = tasks,
                                        !.response = initial_response(req, now, u)]
       IN IF req.parallel_processing
          THEN /\ pipe' = [p \in DOMAIN pipe |->
                            IF p <= Len(tasks)
                            THEN begin(tasks[p], cache, shadow, env.redis, env.redis)
                            ELSE pipe[p]]
               /\ batch' = [started EXCEPT !.pc = "gathering", !.invoked = Len(tasks)]
          ELSE /\ pipe' = [pipe EXCEPT ![1] =
                             begin(tasks[1], cache, shadow, env.redis, env.redis)]
               /\ batch' = [started EXCEPT !.pc = "sequential", !.idx = 1,
                                           !.invoked = 1]

\* a caller invokes enrich_batch(req)
BatchStart(req) ==
    /\ batch.pc = "idle"
    /\ \E u \in fresh_uuids(req) : enrich_batch_start(req, u)
    /\ UNCHANGED <<cache, rows, now, shadow, webhook, env, query, subscription, worker>>

\* (variant: aggregation starts as soon as the first pipelines have returned)
BatchGathered_eager ==
    /\ batch.pc = "gathering"
    /\ pipe[1].pc = "done"
    /\ LET n == Cardinality({p \in 1..Len(batch.tasks) :
                               \A q \in 1..p : pipe[q].pc = "done"})
       IN finish(gather_results([p \in 1..n |-> pipe[p].ret],
                                batch.to_process, batch.request.fail_fast))
    /\ UNCHANGED <<rows, pipe, now, shadow, env, query, subscription, worker>>

\* asyncio.gather(*tasks, return_exceptions=True) returns
BatchGathered ==
    /\ batch.pc = "gathering"
    /\ \A p \in 1..Len(batch.tasks) : pipe[p].pc = "done"
    /\ finish(gather_results([p \in 1..Len(batch.tasks) |-> pipe[p].ret],
                             batch.to_process, batch.request.fail_fast))
    /\ UNCHANGED <<rows, pipe, now, shadow, env, query, subscription, worker>>

\* the sequential walk resumes with the outcome of the current pipeline
SeqNext ==
    /\ batch.pc = "sequential"
    /\ pipe[batch.idx].pc = "done"
    /\ LET i == batch.idx
           acc == aggregate(batch.acc, pipe[i].ret, batch.tasks[i].message_id,
                            batch.request.fail_fast)
       IN IF acc.aborted \/ i = Len(batch.tasks)
          THEN finish(acc) /\ UNCHANGED pipe
          ELSE /\ pipe' = [pipe EXCEPT ![i + 1] =
                             begin(batch.tasks[i + 1], cache, shadow,
                                   env.redis, env.redis)]
               /\ batch' = [batch EXCEPT !.acc = acc, !.idx = i + 1,
                                         !.invoked = @ + 1]
               /\ UNCHANGED <<cache, webhook>>
    /\ UNCHANGED <<rows, now, shadow, env, query, subscription, worker>>

\* (variant: results are returned whatever include_results says)
get_batch_status_keeps_results(c, batch_id, include_results, up) ==
    LET cached == redis_get(c, "batch:" \o batch_id, up) IN
    IF Truthy(cached) THEN cached ELSE Null

\* get_batch_status: the job read back from batch:<id>, results dropped
\* unless asked for; None when the key holds nothing (or the read fails)
get_batch_status(c, batch_id, include_results, up) ==
    LET cached == redis_get(c, "batch:" \o batch_id, up) IN
    IF Truthy(cached)
    THEN IF ~include_results THEN [cached EXCEPT !.results = Null] ELSE cached
    ELSE Null

\* a caller invokes get_batch_status(batch_id, include_results)
GetBatchStatus(batch_id, include_results) ==
    /\ query' = [batch_id |-> batch_id, include_results |-> include_results,
                 ret |-> get_batch_status(cache, batch_id, include_results, env.redis)]
    /\ UNCHANGED <<cache, rows, pipe, now, shadow, batch, webhook, env, subscription, worker>>

\* (variant: a failed POST is written back into the job)
WebhookRun_marks_failure ==
    /\ webhook = "scheduled"
    /\ webhook' = IF env.http /\ json_serializable(batch.response)
                  THEN "posted" ELSE "failed"
    /\ batch' = IF env.http /\ json_serializable(batch.response) THEN batch
                ELSE [batch EXCEPT !.response.status = "failed"]
    /\ UNCHANGED <<cache, rows, pipe, now, shadow, env, query, subscription, worker>>

\* the task created for _trigger_webhook runs: client.post(url,
\* json=response.dict()) encodes the body with json.dumps before anything is
\* sent; an encoding error or an unreachable endpoint is logged
WebhookRun ==
    /\ webhook = "scheduled"
    /\ webhook' = IF env.http /\ json_serializable(batch.response)
                  THEN "posted" ELSE "failed"
    /\ UNCHANGED <<cache, rows, pipe, now, shadow, batch, env, query, subscription, worker>>

\* ------------------------------------------------------------ worker pool
\* number of worker loops (settings.MAX_WORKERS) and of messages published
\* to the subscription
MaxWorkers == 2
MaxQueue == 2

\* what the data of a published message decodes to: not JSON at all, an
\* empty JSON object, one request, one request the DTO rejects, a batch of
\* two requests, a batch whose second request the DTO rejects
Payloads == {"undecodable", "empty", "request", "invalid", "batch", "batch_bad_tail"}

\* a subscription: per message its payload and whether Pub/Sub holds it for
\* delivery, has delivered it and awaits the acknowledgement, or has seen it
\* acknowledged
Subscriptions ==
    [1..MaxQueue -> [payload : Payloads, state : {"available"}]]

\* what subscriber.pull may answer: nothing (0), or one deliverable message
received_messages(sub) ==
    {0} \cup {i \in DOMAIN sub : sub[i].state = "available"}

\* (variant: the message is processed first and left for a later
\* acknowledgement)
pull_message_without_ack(sub, i, pullOk, ackOk) ==
    IF ~pullOk \/ i = 0
    THEN [sub |-> sub, data |-> Null]
    ELSE IF sub[i].payload = "undecodable" \/ ~ackOk
    THEN [sub |-> [sub EXCEPT ![i].state = "outstanding"], data |-> Null]
    ELSE [sub |-> [sub EXCEPT ![i].state = "outstanding"],
          data |-> [id |-> i, payload |-> sub[i].payload]]

\* PubSubHandler.pull_message: pull at most one message, decode its data,
\* acknowledge it, return the decoded data; any exception (pull, json.loads,
\* acknowledge) is logged and None is returned.  i is the message Pub/Sub
\* delivers (0: none); pullOk, ackOk tell whether the two calls succeed
pull_message(sub, i, pullOk, ackOk) ==
    IF ~pullOk \/ i = 0
    THEN [sub |-> sub, data |-> Null]
    ELSE IF sub[i].payload = "undecodable" \/ ~ackOk
    THEN [sub |-> [sub EXCEPT ![i].state = "outstanding"], data |-> Null]
    ELSE [sub |-> [sub EXCEPT ![i].state = "acked"],
          data |-> [id |-> i, payload |-> sub[i].payload]]

\* number of requests a payload holds for _process_single
request_count(payload) ==
    IF payload \in {"batch", "batch_bad_tail"} THEN 2
    ELSE IF payload \in {"request", "invalid"} THEN 1 ELSE 0

\* EnrichmentRequestDTO(**message) accepts the part-th request of the payload
dto_accepts(payload, part) ==
    ~(payload = "invalid" \/ (payload = "batch_bad_tail" /\ part = 2))

IdleLoop == [pc |-> "idle", msg |-> 0, part |-> 0, last |-> ""]

\* EnrichmentWorker after __init__ (running = False); handed and enriched
\* count, per published message, the calls of _process_message and of
\* enrich_message made for it
IdleWorker ==
    [running |-> FALSE, started |-> "no", stopped |-> FALSE,
     loop |-> [w \in 1..MaxWorkers |-> IdleLoop],
     handed |-> [i \in 1..MaxQueue |-> 0],
     enriched |-> [i \in 1..MaxQueue |-> 0]]

\* start() up to 'await asyncio.gather(*tasks)': running is set and one task
\* per worker loop is created
Start ==
    /\ worker.started = "no"
    /\ worker' = [worker EXCEPT !.running = TRUE, !.started = "started",
                                !.loop = [w \in 1..MaxWorkers |->
                                            [IdleLoop EXCEPT !.pc = "head"]]]
    /\ UNCHANGED <<cache, rows, pipe, now, shadow, batch, webhook, env, query,
                   subscription>>

\* stop(), called while start() is waiting for its loops
Stop ==
    /\ worker.started = "started"
    /\ ~worker.stopped
    /\ worker' = [worker EXCEPT !.running = FALSE, !.stopped = TRUE]
    /\ UNCHANGED <<cache, rows, pipe, now, shadow, batch, webhook, env, query,
                   subscription>>

\* _process_message(data) up to its first suspension: the first request of
\* the payload goes to _process_single, which builds the DTO and awaits
\* enrich_message; an exception is logged and counted and the call returns
process_message(wk, w, data) ==
    LET i == data.id
        counted == [wk EXCEPT !.handed[i] = @ + 1] IN
    IF dto_accepts(data.payload, 1)
    THEN [counted EXCEPT !.enriched[i] = @ + 1,
                         !.loop[w] = [pc |-> "processing", msg |-> i, part |-> 1,
                                      last |-> ""]]
    ELSE [counted EXCEPT !.loop[w] = [pc |-> "head", msg |-> 0, part |-> 0,
                                      last |-> "processing failed"]]

\* one round of 'while self.running' of loop w, from the test to the first
\* suspension: exit, or pull_message and then sleep(1) when it returned
\* nothing (or an empty object), else _process_message.  The loop's own
\* except branch (sleep(5)) needs an exception out of pull_message or
\* _process_message, and both catch every Exception themselves
WorkerIterate(w, pullOk, ackOk) ==
    /\ worker.loop[w].pc = "head"
    /\ IF ~worker.running
       THEN /\ worker' = [worker EXCEPT !.loop[w] = [IdleLoop EXCEPT !.pc = "exited"]]
            /\ UNCHANGED subscription
       ELSE \E i \in received_messages(subscription) :
              LET got == pull_message(subscription, i, pullOk, ackOk) IN
              /\ subscription' = got.sub
              /\ worker' =
                   IF got.data = Null \/ got.data.payload = "empty"
                   THEN [worker EXCEPT !.loop[w] =
                           [pc |-> "sleep1", msg |-> 0, part |-> 0,
                            last |-> IF ~pullOk \/ (i /= 0 /\ got.data = Null)
                                     THEN "pull failed" ELSE ""]]
                   ELSE process_message(worker, w, got.data)
    /\ UNCHANGED <<cache, rows, pipe, now, shadow, batch, webhook, env, query>>

\* asyncio.sleep of loop w is over
WorkerSleepDone(w) ==
    /\ worker.loop[w].pc \in {"sleep1", "backoff"}
    /\ worker' = [worker EXCEPT !.loop[w] = [IdleLoop EXCEPT !.pc = "head"]]
    /\ UNCHANGED <<cache, rows, pipe, now, shadow, batch, webhook, env, query,
                   subscription>>

\* the enrich_message awaited by loop w returns (it raises nothing):
\* _process_single logs the event; a batch goes on with its next request,
\* whose DTO may be rejected; then _process_message returns to the loop
WorkerProcessed(w) ==
    /\ worker.loop[w].pc = "processing"
    /\ LET i == worker.loop[w].msg
           part == worker.loop[w].part
           payload == subscription[i].payload
       IN worker' =
            IF part < request_count(payload)
            THEN IF dto_accepts(payload, part + 1)
                 THEN [worker EXCEPT !.enriched[i] = @ + 1,
                                     !.loop[w].part = part + 1]
                 ELSE [worker EXCEPT !.loop[w] =
                         [pc |-> "head", msg |-> 0, part |-> 0,
                          last |-> "processing failed"]]
            ELSE [worker EXCEPT !.loop[w] =
                    [IdleLoop EXCEPT !.pc = "head"]]
    /\ UNCHANGED <<cache, rows, pipe, now, shadow, batch, webhook, env, query,
                   subscription>>

\* asyncio.gather(*tasks) in start() returns: every loop has exited
StartReturns ==
    /\ worker.started = "started"
    /\ \A w \in 1..MaxWorkers : worker.loop[w].pc = "exited"
    /\ worker' = [worker EXCEPT !.started = "returned"]
    /\ UNCHANGED <<cache, rows, pipe, now, shadow, batch, webhook, env, query,
                   subscription>>

\* Pub/Sub: the acknowledgement deadline of a delivered, unacknowledged
\* message passes and the message is delivered again
AckDeadlineExpires(i) ==
    /\ subscription[i].state = "outstanding"
    /\ subscription' = [subscription EXCEPT ![i].state = "available"]
    /\ UNCHANGED <<cache, rows, pipe, now, shadow, batch, webhook, env, query,
                   worker>>

\* ---------------------------------------------------------- environment
\* the producer of the companion response fills the hand-off slot
AssistantResponseArrives(c, m) ==
    LET slot == "assistant:" \o c \o ":" \o m IN
    /\ slot \notin DOMAIN cache
    /\ cache' = [k \in DOMAIN cache \cup {slot} |->
                   IF k = slot THEN [text |-> json_dumps([str |-> "r"]), ttl |-> 0]
                   ELSE cache[k]]
    /\ UNCHANGED <<rows, pipe, now, shadow, batch, webhook, env, query, subscription, worker>>

\* Redis drops a key whose TTL elapsed
TTLExpire(k) ==
    /\ k \in DOMAIN cache
    /\ cache' = [j \in DOMAIN cache \ {k} |-> cache[j]]
    /\ shadow' = [pr \in DOMAIN shadow |->
                    IF shadow[pr] /= Null /\ shadow[pr].key = k THEN Null
                    ELSE shadow[pr]]
    /\ UNCHANGED <<rows, pipe, now, batch, webhook, env, query, subscription, worker>>

Init ==
    /\ cache = <<>>
    /\ rows = <<>>
    /\ pipe = [p \in Calls |-> IdlePipe]
    /\ now = 0
    /\ shadow = [pr \in Contents \X Responses |-> Null]
    /\ batch = IdleBatch
    /\ webhook = "none"
    /\ subscription = <<>>
    /\ worker = IdleWorker
    /\ query = Null
    /\ env = [redis |-> TRUE, db |-> TRUE, http |-> TRUE]

\* ---- the single-message pipeline, Redis and the database reachable ----
\* requests without a conversation: _wait_for_assistant_response returns at once
CoreRequests ==
    {r \in Requests : /\ r.role = "user" /\ r.wait_for_response
                      /\ r.conversation_id = ""
                      /\ r.include_quality_analysis /\ r.include_pii_detection}

Next ==
    \/ \E p \in Calls, r \in CoreRequests : Call(p, r)
    \/ \E p \in Calls : Join(p, FALSE)
    \/ \E k \in DOMAIN cache : TTLExpire(k)

Spec == Init /\ [][Next]_vars

\* ---- the companion-response wait: requests of a conversation that wait ----
WaitRequests ==
    {r \in Requests : /\ r.role = "user" /\ r.wait_for_response
                      /\ r.conversation_id = "c1" /\ r.content = "a"
                      /\ r.assistant_response = ""
                      /\ r.include_quality_analysis /\ r.include_pii_detection}

\* one poll loop at a time (a loop reads its own slot and writes nothing)
NextWait ==
    \/ \E p \in Calls, r \in WaitRequests :
          /\ \A q \in Calls : pipe[q].pc /= "polling"
          /\ Call(p, r)
    \/ \E p \in Calls : Poll(p)
    \/ \E p \in Calls : Join(p, FALSE)
    \/ \E c \in ConvIds \ {""}, m \in MsgIds : AssistantResponseArrives(c, m)
    \/ \E k \in DOMAIN cache : TTLExpire(k)

SpecWait == Init /\ [][NextWait]_vars

\* ---- analyzers may raise; Redis and the database come and go ----
EnvChange(f) ==
    /\ env' = [env EXCEPT ![f] = ~@]
    /\ UNCHANGED <<cache, rows, pipe, now, shadow, batch, webhook, query, subscription, worker>>

FaultRequests ==
    {r \in Requests : /\ r.role = "user" /\ ~r.wait_for_response
                      /\ r.conversation_id = "" /\ r.content = "a"
                      /\ r.assistant_response = "" /\ r.message_id = "m1"}

NextFaults ==
    \/ \E p \in Calls, r \in FaultRequests : Call(p, r)
    \/ \E p \in Calls : Join(p, TRUE)
    \/ \E f \in {"redis", "db"} : EnvChange(f)
    \/ \E k \in DOMAIN cache : TTLExpire(k)

SpecFaults == Init /\ [][NextFaults]_vars

\* ---- one enrich_batch call; analyzers may raise; Redis and the database
\* reachable; no webhook ----
InitBatch ==
    /\ cache = <<>>
    /\ rows = <<>>
    /\ pipe = [p \in 1..MaxBatch |-> IdlePipe]
    /\ now = 0
    /\ shadow = [pr \in Contents \X Responses |-> Null]
    /\ batch = IdleBatch
    /\ webhook = "none"
    /\ subscription = <<>>
    /\ worker = IdleWorker
    /\ query = Null
    /\ env = [redis |-> TRUE, db |-> TRUE, http |-> TRUE]

CoreBatchRequests ==
    {req \in BatchRequests :
        req.webhook_url = "" /\ req.batch_id = "b1" /\ req.priority = "normal"}

NextBatch ==
    \/ batch.pc = "idle" /\ \E req \in CoreBatchRequests : BatchStart(req)
    \/ \E p \in DOMAIN pipe : Join(p, TRUE)
    \/ BatchGathered
    \/ SeqNext

SpecBatch == InitBatch /\ [][NextBatch]_vars

\* ---- one enrich_batch call with a webhook; analyzers may raise; Redis, the
\* database and the webhook endpoint are each reachable or not for the run ----
InitBatchFaults ==
    /\ cache = <<>>
    /\ rows = <<>>
    /\ pipe = [p \in 1..MaxBatch |-> IdlePipe]
    /\ now = 0
    /\ shadow = [pr \in Contents \X Responses |-> Null]
    /\ batch = IdleBatch
    /\ webhook = "none"
    /\ subscription = <<>>
    /\ worker = IdleWorker
    /\ query = Null
    /\ env \in [redis : BOOLEAN, db : BOOLEAN, http : BOOLEAN]

FaultBatchRequests ==
    {req \in BatchRequests :
        /\ req.webhook_url /= "" /\ req.batch_id = "b1" /\ req.priority = "normal"
        /\ \A i \in 1..Len(req.messages) :
              req.messages[i].content = "a" /\ req.messages[i].conversation_id = ""}

NextBatchFaults ==
    \/ batch.pc = "idle" /\ \E req \in FaultBatchRequests : BatchStart(req)
    \/ \E p \in DOMAIN pipe : Join(p, TRUE)
    \/ BatchGathered
    \/ SeqNext
    \/ WebhookRun

SpecBatchFaults == InitBatchFaults /\ [][NextBatchFaults]_vars

\* ---- context sharing: one enrich_batch call whose messages carry their ids
\* in any order, one of the contents longer than the context limit ----
RECURSIVE Pad(_)

Pad(n) ==
    IF n = 0 THEN ""
    ELSE LET half == Pad(n \div 2)
         IN  half \o half \o (IF n % 2 = 1 THEN "x" ELSE "")

LongContent == Pad(ContextLimit + 1)

ContextMessage(i) ==
    {[r EXCEPT !.message_id = MsgId(i), !.content = c] :
        r \in {q \in Requests :
                 /\ q.message_id = "m1" /\ q.content = "a" /\ q.role = "user"
                 /\ ~q.wait_for_response /\ q.assistant_response = ""
                 /\ ~q.include_quality_analysis /\ ~q.include_pii_detection},
        c \in {"a", LongContent}}

\* lists without a repeated message id (validate_messages)
ContextMessageLists ==
    UNION {{ms \in [1..n -> UNION {ContextMessage(i) : i \in 1..MaxBatch}] :
               \A i, j \in 1..n : i /= j => ms[i].message_id /= ms[j].message_id}
           : n \in 1..MaxBatch}

ContextBatchRequests ==
    [batch_id : {"b1"}, priority : {"normal"},
     messages : ContextMessageLists, parallel_processing : BOOLEAN,
     fail_fast : {FALSE}, share_context : {TRUE}, deduplicate : {FALSE},
     include_partial_results : {TRUE}, webhook_url : {""}]

\* a parallel batch is followed up to its dispatch (every pipeline is started
\* by then), a sequential one to its return
NextContext ==
    \/ batch.pc = "idle" /\ \E req \in ContextBatchRequests : BatchStart(req)
    \/ batch.pc = "sequential" /\ \E p \in DOMAIN pipe : Join(p, FALSE)
    \/ SeqNext

InitContext ==
    /\ cache = <<>>
    /\ rows = <<>>
    /\ pipe = [p \in 1..MaxBatch |-> IdlePipe]
    /\ now = 0
    /\ shadow = [pr \in (Contents \cup {LongContent}) \X Responses |-> Null]
    /\ batch = IdleBatch
    /\ webhook = "none"
    /\ subscription = <<>>
    /\ worker = IdleWorker
    /\ query = Null
    /\ env = [redis |-> TRUE, db |-> TRUE, http |-> TRUE]

SpecContext == InitContext /\ [][NextContext]_vars

\* ---- the same, the event loop eventually running the webhook task that
\* asyncio.create_task scheduled ----
SpecWebhook == InitBatchFaults /\ [][NextBatchFaults]_vars /\ WF_vars(WebhookRun)

\* ---- batch status queries.  enrich_batch never gets a job into Redis, so
\* the jobs under batch:<id> are drawn from the JSON form a
\* BatchEnrichmentResponseDTO has (timestamps as text), put there by a writer
\* outside this service ----
StoredResults ==
    {Null,
     Some(<<>>),
     Some(<<[status |-> "completed", message_id |-> "m1", result |-> Null,
             processing_time_ms |-> FALSE, cache_hit |-> TRUE, error |-> ""]>>)}

StoredJobs ==
    [batch_id : {"b1"}, status : {"completed", "partial", "failed"},
     total_messages : {1}, processed_messages : {1},
     successful_messages : {0, 1}, failed_messages : {0},
     results : StoredResults, errors : {Null},
     started_at : {"2024-01-15T10:00:00"}, completed_at : {"2024-01-15T10:00:05"},
     cache_hits : {0}, cache_misses : {0}]

JobStored(job) ==
    LET key == "batch:" \o job.batch_id IN
    /\ cache' = [k \in DOMAIN cache \cup {key} |->
                   IF k = key THEN [text |-> json_dumps(job), ttl |-> BatchTTL]
                   ELSE cache[k]]
    /\ UNCHANGED <<rows, pipe, now, shadow, batch, webhook, env, query, subscription, worker>>

NextStatus ==
    \/ \E job \in StoredJobs : JobStored(job)
    \/ \E id \in {"b1", "b2"}, include_results \in BOOLEAN :
          GetBatchStatus(id, include_results)
    \/ \E k \in DOMAIN cache : TTLExpire(k)
    \/ EnvChange("redis")

SpecStatus == Init /\ [][NextStatus]_vars

\* ---- calls one after the other (a call starts when no other is in its
\* fan-out), entries expiring in between ----
NextTTL ==
    \/ \E p \in Calls, r \in CoreRequests :
          /\ \A q \in Calls : pipe[q].pc /= "analyzing"
          /\ Call(p, r)
    \/ \E p \in Calls : Join(p, FALSE)
    \/ \E k \in DOMAIN cache : TTLExpire(k)

SpecTTL == Init /\ [][NextTTL]_vars

\* ---- the same, the event loop resuming every sleeping poll loop ----
SpecWaitFair == Init /\ [][NextWait]_vars /\ \A p \in Calls : WF_vars(Poll(p))

\* ---- _calculate_overall_confidence on its own ----
\* fractions num/den stand for the floats
Half == [num |-> 1, den |-> 2]

\* (variant: a label that is neither high nor low weighs like medium)
confidence_weight_lenient(label) ==
    IF label = "high" THEN [num |-> 4, den |-> 4]
    ELSE IF label = "low" THEN [num |-> 1, den |-> 4]
    ELSE [num |-> 2, den |-> 4]

\* the if / elif / else of the loop body: 1.0, 0.5, and 0.25 for the rest
confidence_weight(label) ==
    IF label = "high" THEN [num |-> 4, den |-> 4]
    ELSE IF label = "medium" THEN [num |-> 2, den |-> 4]
    ELSE [num |-> 1, den |-> 4]

\* classification[key].get("confidence", "medium")
confidence_label(entry) ==
    IF "confidence" \in DOMAIN entry THEN entry.confidence ELSE "medium"

ClassificationKeys == {"work", "topic", "intent"}

calculate_overall_confidence(classification) ==
    LET present == ClassificationKeys \cap DOMAIN classification
        quarters(key) ==
            IF key \in present
            THEN confidence_weight(confidence_label(classification[key])).num
            ELSE 0
    IN  IF present = {} THEN Half
        ELSE [num |-> quarters("work") + quarters("topic") + quarters("intent"),
              den |-> 4 * Cardinality(present)]

\* classification dicts: any of the three keys (and a foreign one), each
\* entry with or without a confidence label
ConfidenceLabels == {"high", "medium", "low", "very_high"}

ClassificationEntries ==
    {[primary |-> "OTHER"]}
    \cup {[primary |-> "OTHER", confidence |-> l] : l \in ConfidenceLabels}

Classifications ==
    UNION {[keys -> ClassificationEntries] :
              keys \in SUBSET (ClassificationKeys \cup {"sentiment"})}

CalculateOverallConfidence(classification) ==
    /\ query' = [classification |-> classification,
                 ret |-> calculate_overall_confidence(classification)]
    /\ UNCHANGED <<cache, rows, pipe, now, shadow, batch, webhook, env, subscription, worker>>

NextConfidence == \E c \in Classifications : CalculateOverallConfidence(c)

SpecConfidence == Init /\ [][NextConfidence]_vars

\* ---- concurrent calls for one never-seen content: analyzers succeed, Redis
\* and the database reachable, no entry expires while the calls run ----
RaceRequests ==
    {r \in Requests : /\ r.role = "user" /\ ~r.wait_for_response
                      /\ r.conversation_id = "" /\ r.content = "a"
                      /\ r.assistant_response = ""}

NextRace ==
    \/ \E p \in Calls, r \in RaceRequests : Call(p, r)
    \/ \E p \in Calls : Join(p, FALSE)

SpecRace == Init /\ [][NextRace]_vars

\* ---- who waits for a companion response: requests of either role, with and
\* without wait_for_response and conversation_id ----
PollRequests ==
    {r \in Requests : /\ r.content = "a" /\ r.assistant_response = ""
                      /\ r.message_id = "m1"
                      /\ r.include_quality_analysis /\ ~r.include_pii_detection}

NextPoll ==
    \/ \E p \in Calls, r \in PollRequests :
          /\ \A q \in Calls : pipe[q].pc /= "polling"
          /\ Call(p, r)
    \/ \E p \in Calls : Poll(p)
    \/ \E p \in Calls : Join(p, FALSE)
    \/ AssistantResponseArrives("c1", "m1")
    \/ \E k \in DOMAIN cache : TTLExpire(k)

SpecPoll == Init /\ [][NextPoll]_vars

\* ---- _deduplicate_messages and _group_by_conversation on their own ----
\* a conversation_id is any string of the client: it may be absent, a
\* conversation of its own, or spell the message_id of a message
GroupConvIds == {"", "c1", MsgId(1)}

GroupMessage(i) ==
    {[r EXCEPT !.message_id = MsgId(i), !.conversation_id = c] :
        r \in {q \in Requests :
                 /\ q.message_id = "m1" /\ q.role = "user"
                 /\ q.conversation_id = ""
                 /\ ~q.wait_for_response /\ q.assistant_response = ""
                 /\ ~q.include_quality_analysis /\ ~q.include_pii_detection},
        c \in GroupConvIds}

\* lists without a repeated message id (validate_messages), in any order
GroupMessageLists ==
    UNION {{ms \in [1..n -> UNION {GroupMessage(i) : i \in 1..MaxBatch}] :
               \A i, j \in 1..n : i /= j => ms[i].message_id /= ms[j].message_id}
           : n \in 1..MaxBatch}

\* the list handed to the helper
InitHelpers ==
    /\ cache = <<>>
    /\ rows = <<>>
    /\ pipe = [p \in Calls |-> IdlePipe]
    /\ now = 0
    /\ shadow = [pr \in Contents \X Responses |-> Null]
    /\ batch = IdleBatch
    /\ webhook = "none"
    /\ subscription = <<>>
    /\ worker = IdleWorker
    /\ env = [redis |-> TRUE, db |-> TRUE, http |-> TRUE]
    /\ \E ms \in GroupMessageLists : query = [call |-> "", messages |-> ms]

DeduplicateMessages ==
    /\ query.call = ""
    /\ query' = [call |-> "_deduplicate_messages", messages |-> query.messages,
                 ret |-> deduplicate_messages(query.messages)]
    /\ UNCHANGED <<cache, rows, pipe, now, shadow, batch, webhook, env, subscription, worker>>

GroupByConversation ==
    /\ query.call = ""
    /\ query' = [call |-> "_group_by_conversation", messages |-> query.messages,
                 ret |-> group_by_conversation(query.messages)]
    /\ UNCHANGED <<cache, rows, pipe, now, shadow, batch, webhook, env, subscription, worker>>

NextHelpers ==
    \/ DeduplicateMessages
    \/ GroupByConversation

SpecHelpers == InitHelpers /\ [][NextHelpers]_vars

\* ---- the aggregation loop of the parallel branch on its own: the tasks of
\* a grouped batch, the invocation of one of them having raised ----
PipelineError == [exception |-> "pipeline invocation raised"]

\* what gather(return_exceptions=True) hands back, task by task
task_results_with_error(tasks, k) ==
    [i \in 1..Len(tasks) |->
        IF i = k THEN PipelineError
        ELSE completed_response(tasks[i],
               build_result(tasks[i], <<analyzer_output("classification", tasks[i])>>, 0))]

AggregateParallel(k) ==
    /\ query.call = ""
    /\ LET to_process == query.messages
           tasks == walk(group_by_conversation(to_process))
       IN /\ k \in 1..Len(tasks)
          /\ query' = [call |-> "aggregate", messages |-> to_process,
                       tasks |-> tasks, raised |-> k,
                       ret |-> gather_results(task_results_with_error(tasks, k),
                                              to_process, FALSE)]
    /\ UNCHANGED <<cache, rows, pipe, now, shadow, batch, webhook, env, subscription, worker>>

NextAggregate == \E k \in 1..MaxBatch : AggregateParallel(k)

SpecAggregate == InitHelpers /\ [][NextAggregate]_vars

\* ---- the HTTP endpoint POST /enrich/batch in front of one enrich_batch
\* call; analyzers may raise ----
\* hash(str(request.messages)): a signed integer that depends on the
\* interpreter's hash seed, written in decimal
HashValues == {-7, 40127733}

\* the BatchEnrichmentResponseDTO the endpoint returns at once for normal and
\* low priority
route_response(req, t, h) ==
    [batch_id |-> IF req.batch_id /= "" THEN req.batch_id
                  ELSE "batch_" \o ToString(h),
     status |-> "processing",
     total_messages |-> Len(req.messages), processed_messages |-> 0,
     successful_messages |-> 0, failed_messages |-> 0,
     results |-> Null, errors |-> Null, started_at |-> t, completed_at |-> Null,
     cache_hits |-> 0, cache_misses |-> 0]

\* POST /enrich/batch: with high priority the endpoint awaits enrich_batch
\* itself; otherwise it adds enrich_batch(request) to the background tasks
\* and returns the processing response
RouteEnrichBatch(req) ==
    /\ batch.pc = "idle"
    /\ query = Null
    /\ IF req.priority = "high"
       THEN /\ \E u \in fresh_uuids(req) : enrich_batch_start(req, u)
            /\ query' = [call |-> "POST /enrich/batch", ret |-> Null]
       ELSE /\ \E h \in HashValues :
                 query' = [call |-> "POST /enrich/batch",
                           ret |-> route_response(req, now, h)]
            /\ batch' = [IdleBatch EXCEPT !.pc = "queued", !.request = req]
            /\ pipe' = pipe
    /\ UNCHANGED <<cache, rows, now, shadow, webhook, env, subscription, worker>>

\* the background task runs once the response has been sent
BackgroundRun ==
    /\ batch.pc = "queued"
    /\ \E u \in fresh_uuids(batch.request) : enrich_batch_start(batch.request, u)
    /\ UNCHANGED <<cache, rows, now, shadow, webhook, env, query, subscription, worker>>

\* high priority: the awaited enrich_batch returns and its response is the
\* endpoint's response
RouteReturn ==
    /\ batch.pc = "done"
    /\ query /= Null /\ query.ret = Null
    /\ query' = [query EXCEPT !.ret = batch.response]
    /\ UNCHANGED <<cache, rows, pipe, now, shadow, batch, webhook, env, subscription, worker>>

RouteRequests ==
    {req \in BatchRequests :
        /\ req.webhook_url = ""
        /\ \A i \in 1..Len(req.messages) :
              req.messages[i].content = "a" /\ req.messages[i].conversation_id = ""}

NextRoute ==
    \/ \E req \in RouteRequests : RouteEnrichBatch(req)
    \/ BackgroundRun
    \/ \E p \in DOMAIN pipe : Join(p, TRUE)
    \/ BatchGathered
    \/ SeqNext
    \/ RouteReturn

SpecRoute == InitBatch /\ [][NextRoute]_vars

\* ---- the worker pool on a subscription holding MaxQueue messages; pull and
\* acknowledge calls may fail; stop() may be called at any time after
\* start() ----
InitWorker ==
    /\ cache = <<>>
    /\ rows = <<>>
    /\ pipe = [p \in Calls |-> IdlePipe]
    /\ now = 0
    /\ shadow = [pr \in Contents \X Responses |-> Null]
    /\ batch = IdleBatch
    /\ webhook = "none"
    /\ query = Null
    /\ env = [redis |-> TRUE, db |-> TRUE, http |-> TRUE]
    /\ subscription \in Subscriptions
    /\ worker = IdleWorker

NextWorker ==
    \/ Start
    \/ Stop
    \/ \E w \in 1..MaxWorkers, pullOk \in BOOLEAN, ackOk \in BOOLEAN :
          WorkerIterate(w, pullOk, ackOk)
    \/ \E w \in 1..MaxWorkers : WorkerSleepDone(w)
    \/ \E w \in 1..MaxWorkers : WorkerProcessed(w)
    \/ StartReturns
    \/ \E i \in 1..MaxQueue : AckDeadlineExpires(i)

SpecWorker == InitWorker /\ [][NextWorker]_vars

\* ---- the same, the event loop running every loop that is ready, every
\* sleep ending and every awaited enrich_message returning ----
SpecWorkerFair ==
    /\ InitWorker /\ [][NextWorker]_vars
    /\ \A w \in 1..MaxWorkers :
          /\ WF_vars(\E pullOk \in BOOLEAN, ackOk \in BOOLEAN :
                        WorkerIterate(w, pullOk, ackOk))
          /\ WF_vars(WorkerSleepDone(w))
          /\ WF_vars(WorkerProcessed(w))
    /\ WF_vars(StartReturns)

\* ---- the sequential walk alone: sequential batches of short messages, ids
\* in any order, each followed to its return ----
SequentialBatchRequests ==
    {req \in ContextBatchRequests :
        /\ ~req.parallel_processing
        /\ \A i \in 1..Len(req.messages) : req.messages[i].content = "a"}

NextSequential ==
    \/ batch.pc = "idle" /\ \E req \in SequentialBatchRequests : BatchStart(req)
    \/ \E p \in DOMAIN pipe : Join(p, FALSE)
    \/ SeqNext

SpecSequential == InitContext /\ [][NextSequential]_vars

Done(p) == pipe[p].pc = "done"

BatchDone == batch.pc = "done"

\* the pipelines one enrich_batch call ran, by how enrich_message ended
Ran == {p \in DOMAIN pipe : pipe[p].pc /= "idle"}

FailedPipelines == {p \in Ran : Done(p) /\ pipe[p].ret.status = "failed"}

CompletedPipelines == {p \in Ran : Done(p) /\ pipe[p].ret.status = "completed"}

\* ======================================================================
\* C1  Idempotent cache hit.  A call whose (content, assistant_response)
\* pair has a live entry written by an earlier completed miss returns
\* status completed with cache_hit = TRUE and exactly the result that the
\* earlier call computed and stored; a call that finds no live entry for its
\* pair reports cache_hit = FALSE.  (shadow tracks, per pair, the result the
\* last completed miss stored and forgets it when the entry's TTL elapses;
\* expect is its value at the call's cache lookup.)
IdempotentCacheHit ==
    \A p \in DOMAIN pipe :
        Done(p) =>
            IF pipe[p].expect /= Null
            THEN /\ pipe[p].ret.status = "completed"
                 /\ pipe[p].ret.cache_hit
                 /\ pipe[p].ret.result = pipe[p].expect.result
            ELSE ~pipe[p].ret.cache_hit

\* a second call, for another message with the same pair, served the result
\* of the first call, which had missed
IdempotentCacheHitWitness ==
    \E p, q \in DOMAIN pipe :
        /\ Done(p) /\ Done(q)
        /\ pipe[q].ret.status = "completed" /\ ~pipe[q].ret.cache_hit
        /\ Pair(pipe[p].req0) = Pair(pipe[q].req0)
        /\ pipe[p].req0.message_id /= pipe[q].req0.message_id
        /\ pipe[p].ret.cache_hit
        /\ pipe[p].ret.result = pipe[q].ret.result

\* ======================================================================
\* C2  A cache hit has no effect.  The step in which enrich_message finds
\* an entry under the request's key returns at once: it dispatches no
\* analyzer, never enters the companion-response wait, and leaves the cache
\* and the persisted rows exactly as they were.
CacheHitFrame ==
    [][\A p \in DOMAIN pipe :
          (/\ pipe[p].pc /= "done" /\ pipe'[p].pc = "done"
           /\ pipe'[p].ret.cache_hit)
          => /\ cache' = cache
             /\ rows' = rows
             /\ pipe'[p].tasks = <<>>
             /\ ~pipe'[p].waited
             /\ pipe'[p].polls = 0]_vars

\* a request that would wait for its companion response on a miss was
\* served from the cache
CacheHitFrameWitness ==
    \E p \in DOMAIN pipe :
        /\ Done(p) /\ pipe[p].ret.cache_hit
        /\ pipe[p].req0.wait_for_response /\ pipe[p].req0.role = "user"
        /\ pipe[p].req0.conversation_id /= ""
        /\ pipe[p].tasks = <<>> /\ ~pipe[p].waited

NoExceptionEscapes ==
    /\ \A p \in DOMAIN pipe :
          Done(p) => /\ ~is_exception(pipe[p].ret)
                     /\ DOMAIN pipe[p].ret = {"status", "message_id", "result",
                                              "processing_time_ms", "cache_hit", "error"}
                     /\ pipe[p].ret.status \in {"completed", "failed"}
    /\ BatchDone => /\ ~is_exception(batch.response)
                    /\ {"batch_id", "status", "total_messages", "processed_messages",
                         "successful_messages", "failed_messages"}
                           \subseteq DOMAIN batch.response
                    /\ batch.response.status \in {"completed", "partial", "failed"}

\* an analyzer raised, Redis, the database and the webhook endpoint were all
\* unreachable, and the batch still returned its response
NoExceptionEscapesWitness ==
    /\ BatchDone
    /\ ~env.redis /\ ~env.db /\ ~env.http
    /\ webhook = "failed"
    /\ FailedPipelines /= {} /\ CompletedPipelines /= {}

\* ======================================================================
\* C5 as stated: a batch with fail_fast off in which some but not all
\* pipelines failed returns status partial, failed_messages and
\* successful_messages equal to the numbers of failed and of completed
\* pipelines, and one {message_id, error} entry per failed message.
PartialFailureReported ==
    (/\ BatchDone /\ ~batch.request.fail_fast
     /\ FailedPipelines /= {} /\ CompletedPipelines /= {})
    => /\ batch.response.status = "partial"
       /\ batch.response.failed_messages = Cardinality(FailedPipelines)
       /\ batch.response.successful_messages = Cardinality(CompletedPipelines)
       /\ batch.response.errors /= Null
       /\ {e.message_id : e \in Range(batch.response.errors.list)}
              = {batch.tasks[p].message_id : p \in FailedPipelines}

\* ======================================================================
\* C6 as stated: a batch with fail_fast on in which some pipeline failed
\* returns status failed, errors holding the single batch_error entry, and
\* processed_messages short of the failed message.
FailFastAborts ==
    (BatchDone /\ batch.request.fail_fast /\ FailedPipelines /= {})
    => /\ batch.response.status = "failed"
       /\ batch.response.errors /= Null
       /\ Len(batch.response.errors.list) = 1
       /\ DOMAIN batch.response.errors.list[1] = {"batch_error"}
       /\ batch.response.processed_messages < Len(batch.tasks)

\* ======================================================================
\* C7  processed = successful + failed.  At every point of the aggregation
\* and in the response enrich_batch returns, for every combination of
\* flags, processed_messages = successful_messages + failed_messages; the
\* same holds of any job stored under a batch: key.
ProcessedIsSuccessfulPlusFailed ==
    /\ batch.acc.processed = batch.acc.successful + batch.acc.failed
    /\ BatchDone =>
          batch.response.processed_messages
             = batch.response.successful_messages + batch.response.failed_messages
    /\ \A k \in DOMAIN cache :
          SubSeq(k, 1, 6) = "batch:" =>
             LET job == json_loads(cache[k].text) IN
             job.processed_messages = job.successful_messages + job.failed_messages

\* a returned batch that aggregated a cache hit, a miss and a failed pipeline
ProcessedIsSuccessfulPlusFailedWitness ==
    /\ BatchDone
    /\ batch.response.processed_messages >= 3
    /\ batch.response.cache_hits >= 1
    /\ FailedPipelines /= {}

StatusMatchesOutcomes ==
    BatchDone =>
        /\ batch.response.status = "completed" <=> batch.response.errors = Null
        /\ batch.response.status = "partial"
              <=> (CompletedPipelines /= {} /\ FailedPipelines /= {}
                   /\ ~batch.acc.aborted)
        /\ batch.response.status = "failed" <=> batch.acc.aborted

\* ======================================================================
\* C10  One pipeline per distinct content.  When a batch with deduplicate
\* on has returned, in parallel and in sequential mode alike, the number of
\* _process_single_with_tracking invocations is the number of distinct
\* contents among the submitted messages, and so is the number of analyzer
\* fan-outs (the cache starts empty).
OnePipelinePerContent ==
    (BatchDone /\ batch.request.deduplicate)
    => LET distinct == {batch.request.messages[i].content :
                           i \in 1..Len(batch.request.messages)} IN
       /\ batch.invoked = Cardinality(distinct)
       /\ Cardinality(Ran) = Cardinality(distinct)
       /\ Cardinality({p \in Ran : pipe[p].tasks /= <<>>}) = Cardinality(distinct)

\* two submitted messages with the same content and different ids, one
\* fan-out
OnePipelinePerContentWitness ==
    /\ BatchDone /\ batch.request.deduplicate
    /\ Len(batch.request.messages) = 2
    /\ batch.request.messages[1].content = batch.request.messages[2].content
    /\ batch.request.messages[1].message_id /= batch.request.messages[2].message_id
    /\ batch.invoked = 1
    /\ Cardinality({p \in Ran : pipe[p].tasks /= <<>>}) = 1

\* ======================================================================
\* C11  Context propagation.  With share_context on, every pipeline of the
\* batch is dispatched with a conversation_history that lists exactly the
\* members of its conversation group (the messages to process with the same
\* conversation_id, or the message alone when it has none), in ascending
\* message_id order, each as {role, first 500 characters of the content,
\* message_id}.
SharedContextSorted ==
    \A p \in Ran :
        batch.request.share_context =>
            LET h == pipe[p].req.conversation_history
                members == {i \in 1..Len(batch.to_process) :
                               group_key(batch.to_process[i]) = group_key(pipe[p].req)}
            IN  /\ Len(h) = Cardinality(members)
                /\ \A k \in 1..(Len(h) - 1) :
                      IdRank(h[k].message_id) < IdRank(h[k + 1].message_id)
                /\ \A i \in members :
                      \E k \in 1..Len(h) :
                         LET msg == batch.to_process[i] IN
                         /\ h[k].message_id = msg.message_id
                         /\ h[k].role = msg.role
                         /\ Len(h[k].content) = IF Len(msg.content) < ContextLimit
                                                THEN Len(msg.content) ELSE ContextLimit
                         /\ h[k].content = SubSeq(msg.content, 1, Len(h[k].content))

\* a group of three submitted out of id order, its first two members longer
\* than the limit: the pipeline of the member with the largest id ran with
\* the three entries in id order and the long contents cut to the limit
SharedContextSortedWitness ==
    /\ BatchDone /\ batch.request.share_context
    /\ \E p \in Ran :
          LET h == pipe[p].req.conversation_history IN
          /\ Done(p) /\ pipe[p].ret.status = "completed"
          /\ pipe[p].req.message_id = MsgId(3)
          /\ batch.request.messages[1].message_id = MsgId(3)
          /\ Len(h) = 3
          /\ h[1].message_id = MsgId(1) /\ h[2].message_id = MsgId(2)
          /\ Len(h[1].content) = ContextLimit /\ Len(h[2].content) = ContextLimit

\* ======================================================================
\* C12  Webhook fire-once.  A batch with webhook_url set that has returned
\* has had its webhook task created, and only then: the task exists only
\* once the response carries its terminal status.  The task makes its one
\* attempt to POST whether the endpoint answers or not, and once the attempt
\* has succeeded or failed nothing is posted again.
WebhookFiresOnce ==
    /\ [](webhook /= "none" =>
            /\ BatchDone /\ batch.request.webhook_url /= ""
            /\ batch.response.status \in {"completed", "partial", "failed"})
    /\ []((BatchDone /\ batch.request.webhook_url /= "") => webhook /= "none")
    /\ [][(webhook \in {"posted", "failed"}) => (webhook' = webhook)]_vars
    /\ (BatchDone /\ batch.request.webhook_url /= "")
          ~> (webhook \in {"posted", "failed"})

\* the one POST of a returned batch failed and was not repeated
WebhookFiresOnceWitness ==
    /\ BatchDone /\ batch.request.webhook_url /= ""
    /\ batch.response.status = "completed"
    /\ ~env.http /\ webhook = "failed"
    /\ FailedPipelines = {}

\* C12 as stated: the webhook task of a returned batch sends its POST; with
\* the endpoint reachable, the task ends with the job posted
WebhookPostSent ==
    (BatchDone /\ batch.request.webhook_url /= "" /\ env.http
     /\ webhook \notin {"none", "scheduled"})
    => (webhook = "posted")

\* ======================================================================
\* C13 as stated: once enrich_batch has returned with Redis reachable, the
\* job is stored under batch:<batch_id> with the 24-hour TTL, and
\* get_batch_status(batch_id, include_results = TRUE) returns a job with the
\* status and the counters of the response that was returned.
BatchJobStored ==
    (BatchDone /\ env.redis)
    => LET key == "batch:" \o batch.response.batch_id
           job == get_batch_status(cache, batch.response.batch_id, TRUE, env.redis)
       IN /\ key \in DOMAIN cache
          /\ cache[key].ttl = BatchTTL
          /\ job /= Null
          /\ job.status = batch.response.status
          /\ job.processed_messages = batch.response.processed_messages
          /\ job.successful_messages = batch.response.successful_messages
          /\ job.failed_messages = batch.response.failed_messages

\* ======================================================================
\* C14  Status lookup.  The step in which get_batch_status(batch_id,
\* include_results) runs returns None when batch:<batch_id> holds nothing
\* (or cannot be read) and otherwise the stored job, with results removed
\* when include_results is FALSE and with the stored results when it is
\* TRUE; it changes nothing and never hands back an exception.
StatusLookup ==
    [][(query' /= query) =>
          LET key == "batch:" \o query'.batch_id
              ret == query'.ret
          IN /\ cache' = cache
             /\ ~is_exception(ret)
             /\ IF env.redis /\ key \in DOMAIN cache
                THEN LET job == json_loads(cache[key].text) IN
                     /\ ret /= Null
                     /\ \A f \in DOMAIN job \ {"results"} : ret[f] = job[f]
                     /\ ret.results = IF query'.include_results
                                      THEN job.results ELSE Null
                ELSE ret = Null]_vars

\* a job stored with results was read back without them
StatusLookupWitness ==
    /\ query /= Null
    /\ ~query.include_results
    /\ query.ret /= Null /\ query.ret.results = Null
    /\ ("batch:" \o query.batch_id) \in DOMAIN cache
    /\ json_loads(cache["batch:" \o query.batch_id].text).results \notin {Null, Some(<<>>)}

\* ======================================================================
\* C15  TTL expiry.  A call for a pair whose entry is no longer live (it
\* expired, or was never written) misses: the step that starts it dispatches
\* the analyzers of the request, and the step that ends its fan-out returns
\* cache_hit = FALSE and leaves under the key a fresh entry holding the
\* result just computed, with the one-hour TTL.
ExpiredEntryRecomputed ==
    /\ [][\A p \in DOMAIN pipe :
            (pipe[p].pc = "idle" /\ pipe'[p].pc /= "idle" /\ pipe'[p].expect = Null)
            => /\ pipe'[p].pc = "analyzing"
               /\ pipe'[p].tasks = task_list(pipe'[p].req)
               /\ pipe'[p].tasks /= <<>>]_vars
    /\ [][\A p \in DOMAIN pipe :
            (pipe[p].pc = "analyzing" /\ pipe'[p].pc = "done"
             /\ pipe'[p].raised = {})
            => /\ pipe'[p].ret.status = "completed"
               /\ ~pipe'[p].ret.cache_hit
               /\ pipe[p].key \in DOMAIN cache'
               /\ json_loads(cache'[pipe[p].key].text) = pipe'[p].ret.result
               /\ cache'[pipe[p].key].ttl = EnrichmentTTL]_vars

\* two calls for one pair, one after the other, both missed: the entry of
\* the earlier one had expired, and the cache now holds the later result
ExpiredEntryRecomputedWitness ==
    \E p, q \in DOMAIN pipe :
        /\ Done(p) /\ Done(q)
        /\ Pair(pipe[p].req0) = Pair(pipe[q].req0)
        /\ ~pipe[p].ret.cache_hit /\ ~pipe[q].ret.cache_hit
        /\ pipe[q].ret.result.enriched_at < pipe[p].ret.result.enriched_at
        /\ pipe[p].key \in DOMAIN cache
        /\ json_loads(cache[pipe[p].key].text) = pipe[p].ret.result

CacheFailuresInvisible ==
    ~env.redis =>
        /\ cache = <<>>
        /\ \A p \in DOMAIN pipe :
              Done(p) => /\ ~is_exception(pipe[p].ret)
                         /\ ~pipe[p].ret.cache_hit
                         /\ pipe[p].raised = {} =>
                               /\ pipe[p].ret.status = "completed"
                               /\ pipe[p].ret.result /= Null
        /\ BatchDone => /\ ~is_exception(batch.response)
                        /\ batch.response.status = "completed"
                        /\ batch.response.processed_messages = Len(batch.tasks)
                        /\ batch.response.cache_hits = 0

\* Redis down for the whole batch, two messages with the same content
\* processed one after the other, both computed and returned
CacheFailuresInvisibleWitness ==
    /\ ~env.redis /\ BatchDone
    /\ ~batch.request.parallel_processing
    /\ batch.response.successful_messages >= 2
    /\ batch.response.cache_misses = batch.response.successful_messages
    /\ FailedPipelines = {}
    /\ \A p \in Ran : pipe[p].ret.result /= Null

\* ======================================================================
\* C18  The wait is bounded.  A poll loop reads its slot at most 50 times;
\* it hands over to the fan-out without a companion response only after the
\* 50th empty read, and then dispatches the analyzers of the request as it
\* was; and every pipeline that is waiting eventually stops waiting.
WaitIsBounded ==
    /\ [](\A p \in DOMAIN pipe : pipe[p].polls <= PollLimit)
    /\ [][\A p \in DOMAIN pipe :
            (/\ pipe[p].pc = "polling" /\ pipe'[p].pc = "analyzing"
             /\ pipe'[p].req.assistant_response = "")
            => /\ pipe[p].polls = PollLimit
               /\ pipe'[p].req = pipe[p].req0
               /\ pipe'[p].tasks = task_list(pipe[p].req0)]_vars
    /\ \A p \in Calls : (pipe[p].pc = "polling") ~> (pipe[p].pc /= "polling")

\* a request of a conversation waited, no companion response came, and the
\* call completed without one
WaitIsBoundedWitness ==
    \E p \in DOMAIN pipe :
        /\ Done(p) /\ pipe[p].waited
        /\ pipe[p].req0.conversation_id /= ""
        /\ pipe[p].req.assistant_response = ""
        /\ pipe[p].ret.status = "completed" /\ ~pipe[p].ret.cache_hit
        /\ ~pipe[p].ret.result.used_assistant_response

\* ======================================================================
\* C19  overall_confidence.  The value computed for a classification is the
\* mean, over those of the keys work, topic and intent that are present, of
\* the weight of the key's confidence label: 1.0 for high, 0.5 for medium or
\* for an entry without a label, and 0.25 for low and for every other label;
\* it is 0.5 when none of the three keys is present.
OverallConfidenceIsMean ==
    (query /= Null /\ "classification" \in DOMAIN query) =>
        LET c == query.classification
            present == {k \in {"work", "topic", "intent"} : k \in DOMAIN c}
            fourths(k) ==
                IF k \notin present THEN 0
                ELSE IF "confidence" \notin DOMAIN c[k] THEN 2
                ELSE IF c[k].confidence = "high" THEN 4
                ELSE IF c[k].confidence = "medium" THEN 2
                ELSE 1
            total == fourths("work") + fourths("topic") + fourths("intent")
        IN  IF present = {}
            THEN 2 * query.ret.num = query.ret.den
            ELSE query.ret.num * 4 * Cardinality(present) = total * query.ret.den

\* high, an entry without a label and an undefined label: (1.0 + 0.5 + 0.25) / 3
OverallConfidenceIsMeanWitness ==
    /\ query /= Null /\ "classification" \in DOMAIN query
    /\ DOMAIN query.classification = {"work", "topic", "intent"}
    /\ query.classification["work"] = [primary |-> "OTHER", confidence |-> "high"]
    /\ query.classification["topic"] = [primary |-> "OTHER"]
    /\ query.classification["intent"] = [primary |-> "OTHER", confidence |-> "very_high"]
    /\ query.ret.num * 12 = 7 * query.ret.den

\* C19 as stated: a missing and an unknown label both weigh 0.5
OverallConfidenceUnknownIsHalf ==
    (query /= Null /\ "classification" \in DOMAIN query) =>
        LET c == query.classification
            present == {k \in {"work", "topic", "intent"} : k \in DOMAIN c}
            fourths(k) ==
                IF k \notin present THEN 0
                ELSE IF "confidence" \notin DOMAIN c[k] THEN 2
                ELSE IF c[k].confidence = "high" THEN 4
                ELSE IF c[k].confidence = "medium" THEN 2
                ELSE IF c[k].confidence = "low" THEN 1
                ELSE 2
            total == fourths("work") + fourths("topic") + fourths("intent")
        IN  IF present = {}
            THEN 2 * query.ret.num = query.ret.den
            ELSE query.ret.num * 4 * Cardinality(present) = total * query.ret.den

\* ======================================================================
\* C20  Result slots follow the flags.  In the result of a completed miss,
\* quality_analysis is the quality analyzer's output when
\* include_quality_analysis is set and null otherwise, and pii_detection is
\* the PII analyzer's output when include_pii_detection is set and null
\* otherwise, for each of the four combinations of the two flags.
SlotsFollowFlags ==
    \A p \in DOMAIN pipe :
        (Done(p) /\ pipe[p].ret.status = "completed" /\ ~pipe[p].ret.cache_hit)
        => LET r == pipe[p].req
               result == pipe[p].ret.result
           IN /\ result.quality_analysis =
                    (IF r.include_quality_analysis
                     THEN analyzer_output("quality", r) ELSE Null)
              /\ result.pii_detection =
                    (IF r.include_pii_detection
                     THEN analyzer_output("pii", r) ELSE Null)

\* ======================================================================
\* C21  Analyzer dispatch.  A call that missed the cache has dispatched the
\* classification analyzer exactly once, the quality analyzer exactly once if
\* include_quality_analysis is set and never otherwise, the PII analyzer
\* exactly once if include_pii_detection is set and never otherwise; a call
\* served from the cache has dispatched none.  All of them are dispatched
\* before the call collects any result: the step that returns the outcome
\* starts from the fan-out and adds no task.
AnalyzersDispatchedOnce ==
    /\ [](\A p \in DOMAIN pipe :
            LET times(a) == Cardinality({i \in 1..Len(pipe[p].tasks) : pipe[p].tasks[i] = a})
                r == pipe[p].req
            IN  /\ (pipe[p].pc = "analyzing" \/ (Done(p) /\ ~pipe[p].ret.cache_hit))
                   => /\ times("classification") = 1
                      /\ times("quality") = (IF r.include_quality_analysis THEN 1 ELSE 0)
                      /\ times("pii") = (IF r.include_pii_detection THEN 1 ELSE 0)
                /\ (Done(p) /\ pipe[p].ret.cache_hit) => (pipe[p].tasks = <<>>))
    /\ [][\A p \in DOMAIN pipe :
            (pipe[p].pc /= "done" /\ pipe'[p].pc = "done" /\ ~pipe'[p].ret.cache_hit)
            => (pipe[p].pc = "analyzing" /\ pipe'[p].tasks = pipe[p].tasks)]_vars

AnalyzersDispatchedOnceWitness ==
    \E p \in DOMAIN pipe :
        /\ Done(p) /\ pipe[p].ret.status = "completed" /\ ~pipe[p].ret.cache_hit
        /\ ~pipe[p].req.include_quality_analysis /\ pipe[p].req.include_pii_detection
        /\ pipe[p].tasks = <<"classification", "pii">>

\* ======================================================================
\* C22  A failed message writes nothing.  No step of a call that ends with
\* an analyzer raising changes the cache or the persisted rows: the step in
\* which the exception leaves the fan-out and the failed outcome is returned
\* leaves both as they were, and the steps before it (the cache lookup and
\* the dispatch) write nothing either.
FailedCallWritesNothing ==
    [][\A p \in DOMAIN pipe :
         (pipe'[p] /= pipe[p]
          /\ (pipe'[p].pc /= "done" \/ pipe'[p].ret.status = "failed"
              \/ pipe'[p].ret.cache_hit))
         => (cache' = cache /\ rows' = rows)]_vars

\* classification succeeded, PII raised, while an earlier call's result is
\* cached and saved: both still hold that earlier result
FailedCallWritesNothingWitness ==
    \E p, q \in DOMAIN pipe :
        /\ Done(p) /\ pipe[p].ret.status = "failed" /\ pipe[p].raised = {"pii"}
        /\ Done(q) /\ pipe[q].ret.status = "completed" /\ ~pipe[q].ret.cache_hit
        /\ pipe[p].key \in DOMAIN cache
        /\ json_loads(cache[pipe[p].key].text) = pipe[q].ret.result
        /\ "m1" \in DOMAIN rows /\ rows["m1"] = pipe[q].ret.result

\* ======================================================================
\* C23  Failure while persisting.  When every dispatched analyzer succeeded
\* and the database rejects the write of the result, the call returns an
\* outcome with status failed.
PersistFailureFails ==
    [][\A p \in DOMAIN pipe :
         (pipe[p].pc = "analyzing" /\ pipe'[p].pc = "done"
          /\ pipe'[p].raised = {} /\ ~env.db)
         => (pipe'[p].ret.status = "failed")]_vars

\* ======================================================================
\* C24  Cache entries match their key.  Every result stored under an
\* enrichment key was computed by the analyzers from the content and the
\* assistant_response that the key is derived from, also when the
\* assistant response was attached by the companion-response wait.
CacheEntryMatchesKey ==
    \A k \in DOMAIN cache :
        LET v == json_loads(cache[k].text) IN
        ("classification" \in DOMAIN v)
        => k = generate_cache_key(
                   [content |-> v.classification.content,
                    assistant_response |-> v.classification.assistant_response])

\* ======================================================================
\* C25  The result belongs to the request.  In every completed outcome the
\* result carries the message_id of the request it answers, also when the
\* result is served from a cache entry written for another message with the
\* same content.  (user_id and organization_id are copied into the result
\* and served from the cache by the same statements as message_id.)
ResultBelongsToRequest ==
    \A p \in DOMAIN pipe :
        (Done(p) /\ pipe[p].ret.status = "completed")
        => pipe[p].ret.result.message_id = pipe[p].req0.message_id

\* ======================================================================
\* C26  Requested analyses are present.  In every completed outcome of a
\* request with include_pii_detection set, result.pii_detection is not null,
\* and with include_quality_analysis set, result.quality_analysis is not
\* null, also when the result is served from the cache.
RequestedAnalysesPresent ==
    \A p \in DOMAIN pipe :
        (Done(p) /\ pipe[p].ret.status = "completed")
        => /\ pipe[p].req0.include_pii_detection
                => pipe[p].ret.result.pii_detection /= Null
           /\ pipe[p].req0.include_quality_analysis
                => pipe[p].ret.result.quality_analysis /= Null

\* ======================================================================
\* C27  Concurrent misses are benign.  When several calls for the same
\* never-seen content all missed the cache and ran the analyzers, each of
\* them returns status completed with cache_hit = FALSE, and once they have
\* all returned the cache holds one entry, under their common key, whose
\* value is the result computed by one of them.
ConcurrentMissesBenign ==
    LET missed == {p \in DOMAIN pipe : pipe[p].tasks /= <<>>} IN
    Cardinality(missed) >= 2
    => /\ \A p \in missed :
            Done(p) => /\ pipe[p].ret.status = "completed"
                       /\ ~pipe[p].ret.cache_hit
                       /\ pipe[p].key = generate_cache_key(pipe[p].req0)
       /\ (\A p \in missed : Done(p))
            => /\ DOMAIN cache = {pipe[p].key : p \in missed}
               /\ Cardinality(DOMAIN cache) = 1
               /\ \E p \in missed :
                     json_loads(cache[pipe[p].key].text) = pipe[p].ret.result

\* two calls that both missed and computed different results; the cache
\* holds the result of the one that finished last
ConcurrentMissesBenignWitness ==
    /\ Done(1) /\ Done(2)
    /\ ~pipe[1].ret.cache_hit /\ ~pipe[2].ret.cache_hit
    /\ pipe[1].ret.status = "completed" /\ pipe[2].ret.status = "completed"
    /\ pipe[1].tasks /= <<>> /\ pipe[2].tasks /= <<>>
    /\ pipe[1].ret.result /= pipe[2].ret.result
    /\ pipe[1].ret.result.enriched_at > pipe[2].ret.result.enriched_at
    /\ json_loads(cache[pipe[1].key].text) = pipe[1].ret.result

\* ======================================================================
\* C28  Companion-response wait.  A call polls the slot only after a cache
\* miss and only for a request with wait_for_response set, role user and a
\* conversation_id.  A value found in the slot during the wait ends the wait
\* and is attached to the request as assistant_response; the classification
\* and quality analyzers are then called with it and the result built from
\* their outputs has used_assistant_response = TRUE.
CompanionResponseUsed ==
    /\ [](\A p \in DOMAIN pipe :
            LET polled == pipe[p].pc = "polling" \/ pipe[p].req /= pipe[p].req0 IN
            /\ polled
                 => /\ pipe[p].req0.wait_for_response
                    /\ pipe[p].req0.role = "user"
                    /\ pipe[p].req0.conversation_id /= ""
                    /\ ~(Done(p) /\ pipe[p].ret.cache_hit)
            /\ (pipe[p].req /= pipe[p].req0)
                 => /\ pipe[p].req = [pipe[p].req0 EXCEPT !.assistant_response = "r"]
                    /\ (Done(p) /\ pipe[p].ret.status = "completed")
                         => /\ pipe[p].ret.result.classification
                                 = analyzer_output("classification", pipe[p].req)
                            /\ pipe[p].ret.result.classification.assistant_response = "r"
                            /\ pipe[p].ret.result.quality_analysis.by = "quality"
                            /\ pipe[p].ret.result.quality_analysis.assistant_response = "r"
                            /\ pipe[p].ret.result.used_assistant_response)
    /\ [][\A p \in DOMAIN pipe :
            (/\ pipe'[p] /= pipe[p]
             /\ \/ pipe[p].pc = "polling" /\ pipe[p].polls < PollLimit
                \/ /\ pipe[p].pc = "idle" /\ pipe'[p].waited
                   /\ pipe'[p].req0.conversation_id /= ""
             /\ assistant_slot(pipe'[p].req0) \in DOMAIN cache)
            => /\ pipe'[p].pc = "analyzing"
               /\ pipe'[p].req.assistant_response
                    = json_loads(cache[assistant_slot(pipe'[p].req0)].text).str]_vars

\* a call that received no assistant response and found one in its slot
CompanionResponseUsedWitness ==
    \E p \in DOMAIN pipe :
        /\ Done(p) /\ pipe[p].ret.status = "completed" /\ ~pipe[p].ret.cache_hit
        /\ pipe[p].req0.assistant_response = ""
        /\ pipe[p].req.assistant_response = "r"
        /\ pipe[p].ret.result.used_assistant_response
        /\ pipe[p].ret.result.quality_analysis.assistant_response = "r"

\* ======================================================================
\* C29  Deduplication keeps first occurrences.  _deduplicate_messages
\* returns the requests that are the first of their content, in the order
\* of the input and nothing else: the output is a subsequence of the input,
\* no two of its requests have equal content, and every content of the
\* input occurs in it.
DedupKeepsFirst ==
    (query.call = "_deduplicate_messages")
    => LET ms == query.messages
           out == query.ret
           firsts == {i \in 1..Len(ms) :
                        \A j \in 1..(i - 1) : ms[j].content /= ms[i].content}
           nth(k) == CHOOSE i \in firsts : Cardinality({j \in firsts : j <= i}) = k
       IN /\ Len(out) = Cardinality(firsts)
          /\ \A k \in 1..Len(out) : out[k] = ms[nth(k)]
          /\ \A k, l \in 1..Len(out) : k /= l => out[k].content /= out[l].content
          /\ {out[k].content : k \in 1..Len(out)} = {ms[i].content : i \in 1..Len(ms)}

\* a, b, a: the third request is dropped, the first two are kept in order
DedupKeepsFirstWitness ==
    /\ query.call = "_deduplicate_messages"
    /\ Len(query.messages) = 3
    /\ query.messages[1].content = "a" /\ query.messages[2].content = "b"
    /\ query.messages[3].content = "a"
    /\ query.ret = <<query.messages[1], query.messages[2]>>

\* ======================================================================
\* C30  Grouping partitions the batch.  _group_by_conversation puts every
\* request in exactly one group, and a request without conversation_id is
\* alone in its group, also when its message_id is the conversation_id of
\* another request of the batch.
GroupingPartitions ==
    (query.call = "_group_by_conversation")
    => LET ms == query.messages
           groups == query.ret
           places(msg) == {<<g, k>> \in (1..Len(groups)) \X (1..Len(ms)) :
                             k <= Len(groups[g]) /\ groups[g][k] = msg}
       IN /\ \A i \in 1..Len(ms) : Cardinality(places(ms[i])) = 1
          /\ \A g \in 1..Len(groups) : \A k \in 1..Len(groups[g]) :
                \E i \in 1..Len(ms) : groups[g][k] = ms[i]
          /\ \A g \in 1..Len(groups) : \A k \in 1..Len(groups[g]) :
                (groups[g][k].conversation_id = "") => (Len(groups[g]) = 1)

\* ======================================================================
\* C31  No context without share_context.  With share_context off,
\* enrich_batch hands every request to its pipeline with the
\* conversation_history it was submitted with, and the classification
\* analyzer receives that history, in parallel and in sequential dispatch.
HistoryUntouchedWithoutSharing ==
    (batch.pc /= "idle" /\ ~batch.request.share_context)
    => LET submitted(id) ==
               CHOOSE m \in Range(batch.request.messages) : m.message_id = id
       IN /\ \A i \in 1..Len(batch.tasks) :
                batch.tasks[i].conversation_history
                  = submitted(batch.tasks[i].message_id).conversation_history
          /\ \A p \in Ran :
                /\ pipe[p].req0.conversation_history
                     = submitted(pipe[p].req0.message_id).conversation_history
                /\ (Done(p) /\ pipe[p].ret.status = "completed" /\ ~pipe[p].ret.cache_hit)
                     => pipe[p].ret.result.classification.history
                          = submitted(pipe[p].req0.message_id).conversation_history

\* ======================================================================
\* C32  Sequential dispatch.  While a batch with parallel_processing off
\* runs, at most one pipeline is in flight, a pipeline has started only if
\* all pipelines before it have returned, and the pipelines are started in
\* the derived order: the i-th pipeline is the i-th request of the walk, the
\* members of a group are adjacent and in ascending message_id order, and
\* the groups come in the order in which their first member was submitted.
SequentialInOrder ==
    (batch.pc \in {"sequential", "done"} /\ ~batch.request.parallel_processing)
    => LET ts == batch.tasks
           gk(i) == IF batch.request.share_context THEN group_key(ts[i])
                    ELSE ts[i].message_id
           firstAt(i) == CHOOSE k \in 1..Len(batch.to_process) :
                           /\ (IF batch.request.share_context
                               THEN group_key(batch.to_process[k])
                               ELSE batch.to_process[k].message_id) = gk(i)
                           /\ \A l \in 1..(k - 1) :
                                 (IF batch.request.share_context
                                  THEN group_key(batch.to_process[l])
                                  ELSE batch.to_process[l].message_id) /= gk(i)
       IN /\ Cardinality({p \in DOMAIN pipe : pipe[p].pc \notin {"idle", "done"}}) <= 1
          /\ \A p \in DOMAIN pipe :
                (pipe[p].pc /= "idle")
                => /\ p <= Len(ts)
                   /\ pipe[p].req0.message_id = ts[p].message_id
                   /\ \A q \in 1..(p - 1) : Done(q)
          /\ {ts[i].message_id : i \in 1..Len(ts)}
               = {batch.to_process[i].message_id : i \in 1..Len(batch.to_process)}
          /\ Len(ts) = Len(batch.to_process)
          /\ \A i, j \in 1..Len(ts) :
                (i < j)
                => IF gk(i) = gk(j)
                   THEN /\ IdRank(ts[i].message_id) < IdRank(ts[j].message_id)
                        /\ \A k \in i..j : gk(k) = gk(i)
                   ELSE firstAt(i) < firstAt(j)

\* a finished sequential batch of three requests of one conversation,
\* submitted in descending id order and processed in ascending order
SequentialInOrderWitness ==
    /\ batch.pc = "done" /\ ~batch.request.parallel_processing
    /\ Len(batch.request.messages) = 3
    /\ \A i \in 1..3 : batch.request.messages[i].conversation_id = "c1"
    /\ batch.request.messages[1].message_id = MsgId(3)
    /\ batch.request.messages[3].message_id = MsgId(1)
    /\ \A p \in 1..3 : Done(p) /\ pipe[p].req0.message_id = MsgId(p)

ProcessedCountsSurvivors ==
    (batch.pc = "done" /\ ~batch.acc.aborted)
    => LET ms == batch.request.messages
           distinct == Cardinality({ms[i].content : i \in 1..Len(ms)})
           survivors == IF batch.request.deduplicate THEN distinct ELSE Len(ms)
           r == batch.response
       IN /\ r.total_messages = Len(ms)
          /\ r.processed_messages = survivors
          /\ r.processed_messages <= r.total_messages
          /\ (r.processed_messages < r.total_messages)
               <=> (batch.request.deduplicate /\ distinct < Len(ms))

\* three submitted, two contents: one duplicate dropped
ProcessedCountsSurvivorsWitness ==
    /\ batch.pc = "done" /\ ~batch.acc.aborted
    /\ batch.request.deduplicate
    /\ batch.response.total_messages = 3
    /\ batch.response.processed_messages = 2

\* ======================================================================
\* C37  The webhook is detached.  enrich_batch returns its job while the
\* POST is still only scheduled, and the POST, whether it succeeds or fails,
\* changes neither the returned job nor anything in the cache (the entry
\* under batch:<batch_id> included) nor the persisted rows.
WebhookDetached ==
    [][/\ (batch.pc /= "done" /\ batch'.pc = "done"
           /\ batch'.request.webhook_url /= "")
          => (webhook' = "scheduled")
       /\ (webhook = "scheduled" /\ webhook' /= webhook)
          => (batch' = batch /\ cache' = cache /\ rows' = rows)]_vars

\* the batch has returned, its POST has failed, the job is as it was returned
WebhookDetachedWitness ==
    /\ batch.pc = "done" /\ batch.request.webhook_url /= ""
    /\ webhook = "failed"
    /\ batch.response.status = "completed"
    /\ batch.response.results /= Null

\* ======================================================================
\* C38 as stated: for a batch submitted through the endpoint with normal or
\* low priority, once the background run has finished, the batch_id of the
\* immediate processing response is the batch_id of the job the run built
\* (the id under which it stores the job), whether or not the request
\* carried a batch_id.
RouteIdIsJobId ==
    (batch.pc = "done" /\ batch.request.priority /= "high" /\ query /= Null)
    => (query.ret.batch_id = batch.response.batch_id)

\* ======================================================================
\* C39  Acknowledge before processing.  A message is handed to
\* _process_message only after Pub/Sub has seen it acknowledged: a loop that
\* is processing a message holds an acknowledged one, every message handed
\* over is acknowledged and was handed over once, enrich_message is called
\* at most once per request it holds, and an acknowledged message is never
\* delivered again, whether its processing failed or stop() came while it
\* was being processed.
AckBeforeProcessing ==
    /\ [](/\ \A w \in 1..MaxWorkers :
                worker.loop[w].pc = "processing"
                => subscription[worker.loop[w].msg].state = "acked"
          /\ \A i \in 1..MaxQueue :
                /\ worker.handed[i] <= 1
                /\ worker.enriched[i] <= request_count(subscription[i].payload)
                /\ (worker.handed[i] = 1) => (subscription[i].state = "acked")
                /\ (subscription[i].state /= "acked") => (worker.enriched[i] = 0))
    /\ [][\A i \in 1..MaxQueue :
            (subscription[i].state = "acked")
            => (subscription'[i].state = "acked")]_vars

\* a message whose acknowledgement first failed was delivered again and then
\* handed over once; its processing failed on the second request of the
\* batch; the loops were stopped and start() has returned
AckBeforeProcessingWitness ==
    /\ worker.started = "returned"
    /\ \E i \in 1..MaxQueue :
          /\ subscription[i].payload = "batch_bad_tail"
          /\ subscription[i].state = "acked"
          /\ worker.handed[i] = 1 /\ worker.enriched[i] = 1
    /\ \E i \in 1..MaxQueue :
          /\ subscription[i].payload = "request"
          /\ subscription[i].state = "available"
          /\ worker.handed[i] = 0

\* ======================================================================
\* C40 as stated, its back-off: the step in which the processing of a
\* message fails leaves the loop in a sleep before its next pull.
FailureBacksOff ==
    [][\A w \in 1..MaxWorkers :
          (/\ worker.loop'[w].last = "processing failed"
           /\ worker.loop'[w] /= worker.loop[w])
          => (worker.loop'[w].pc \in {"sleep1", "backoff"})]_vars

\* C40, the rest of it.  No failure ends a loop: a loop exits only in a round
\* that finds running false, after a failed pull it sleeps and after a failed
\* processing it is back at the head of the loop.  Once stop() has been
\* called no loop pulls again (a loop at the head exits, no message leaves
\* the subscription), and start() eventually returns.
WorkerLoopsSurvive ==
    /\ [][\A w \in 1..MaxWorkers :
            (worker.loop[w].pc /= "exited" /\ worker.loop'[w].pc = "exited")
            => (~worker.running /\ worker.stopped /\ worker.loop[w].pc = "head")]_vars
    /\ [](\A w \in 1..MaxWorkers :
            /\ (worker.loop[w].last = "pull failed")
               => (worker.loop[w].pc = "sleep1")
            /\ (worker.loop[w].last = "processing failed")
               => (worker.loop[w].pc = "head"))
    /\ [][worker.stopped =>
            /\ \A w \in 1..MaxWorkers :
                  (worker.loop[w].pc = "head")
                  => (worker.loop'[w].pc \in {"head", "exited"})
            /\ \A i \in 1..MaxQueue :
                  (subscription[i].state = "available")
                  => (subscription'[i].state = "available")
            /\ worker'.handed = worker.handed]_vars
    /\ (worker.stopped ~> (worker.started = "returned"))

\* start() has returned after stop(); before that one message failed in
\* processing and another one was processed to its end
WorkerLoopsSurviveWitness ==
    /\ worker.stopped /\ worker.started = "returned"
    /\ \E i, j \in 1..MaxQueue :
          /\ subscription[i].payload = "invalid" /\ worker.handed[i] = 1
          /\ subscription[j].payload = "request" /\ worker.enriched[j] = 1

====
